---- MODULE Spec2Model ----
(***************************************************************************)
(* Control-flow-graph construction of src/complete_cfg_builder.py          *)
(* (TextCFG) and src/java_cfg_builder.py (JavaCFG).                        *)
(*                                                                         *)
(* A source file is a statement arena: prog.st[n] is the AST node n, with  *)
(* its child lists, numbered in textual (pre-order) order, one statement   *)
(* per source line, so that lineno(n) = n.  prog.funcs lists the function  *)
(* definitions of the file in the order of the text, each with its depth   *)
(* in the tree.  The Python call stack of the recursive-descent builder is *)
(* the explicit sequence `stack`.                                          *)
(***************************************************************************)
EXTENDS Integers, Sequences, FiniteSets, TLC

VARIABLES
    builder,       \* the class that is instantiated: "TextCFG" or "JavaCFG"
    prog,          \* the parsed source: [funcs, st], for Java [classes, funcs]
    requested,     \* the main_function (JavaCFG: target_method) argument of __init__
    requested_class, \* the target_class argument of JavaCFG.__init__
    hashOrder,     \* iteration order of sets of function names in this build
    status,        \* "new", "building", "done", "error" (ValueError of __init__),
                   \* "crashed" (exception raised while building)
    main_function, \* self.main_function
    blocks,        \* self.blocks
    connections,   \* self.connections
    loop_stack,    \* self.loop_stack (header ids)
    try_stack,     \* self.try_stack (Try nodes)
    stack,         \* call stack of the builder, innermost frame last
    cfg_edges,     \* edge lines of self.cfg_text
    firstGraph,    \* blocks and connections of the previous build of prog
    builds,        \* number of builds of prog started so far
    debug_results, \* self_debug_serial: the DebugResults object
    shutdown_event, \* self_debug_serial: the global shutdown_event
    serial,        \* self_debug_serial: where main and process_single_task stand
    d4j            \* self_debug_multi_defects4j: process_defects4j_dataset

\* the state of a builder
cfgvars == <<builder, prog, requested, requested_class, hashOrder, status, main_function, blocks,
             connections, loop_stack, try_stack, stack, cfg_edges, firstGraph, builds>>

\* the state of the harnesses that drive the builders
hvars == <<debug_results, shutdown_event, serial, d4j>>

vars == <<cfgvars, hvars>>

NoNode == 0
NoBlock == -1
NoName == "<none>"

(***************************************************************************)
(* AST accessors                                                           *)
(***************************************************************************)
Kind(n) == prog.st[n].kind
Body(n) == prog.st[n].body
Orelse(n) == prog.st[n].orelse
Handlers(n) == prog.st[n].handlers
Finalbody(n) == prog.st[n].finalbody
Calls(n) == prog.st[n].calls
Text(n) == prog.st[n].text
Lineno(n) == n
Comp(n) == prog.st[n].comp

Loops == {"For", "While"}

FuncNames == {prog.funcs[i].name : i \in 1..Len(prog.funcs)}
FuncIndex(name) == CHOOSE i \in 1..Len(prog.funcs) : prog.funcs[i].name = name
FuncBody(name) == prog.funcs[FuncIndex(name)].body

RECURSIVE ConcatAll(_)
ConcatAll(ss) == IF ss = <<>> THEN <<>> ELSE Head(ss) \o ConcatAll(Tail(ss))

\* ast.iter_child_nodes restricted to statement (and handler) children
StmtChildren(n) ==
    CASE Kind(n) \in {"If", "For", "While"} -> Body(n) \o Orelse(n)
      [] Kind(n) \in {"With", "ClassDef"} -> Body(n)
      [] Kind(n) = "ExceptHandler" -> Body(n)
      [] Kind(n) = "Try" -> Body(n) \o Handlers(n) \o Orelse(n) \o Finalbody(n)
      [] OTHER -> <<>>

\* number of expression children that ast.iter_child_nodes yields before
\* the statement children (If.test; While.test; For.target, For.iter;
\* With.items; ExceptHandler.type; FunctionDef.args)
ExprChildren(n) ==
    CASE Kind(n) \in {"If", "While", "With", "ExceptHandler"} -> 1
      [] Kind(n) = "For" -> 2
      [] OTHER -> 0

\* ast.walk(func_node): breadth-first order of the nodes below the function
RECURSIVE WalkLevels(_)
WalkLevels(level) ==
    IF level = <<>> THEN <<>>
    ELSE level \o WalkLevels(ConcatAll([i \in 1..Len(level) |-> StmtChildren(level[i])]))

ast_walk(func) == WalkLevels(FuncBody(func))

SeqToSet(s) == {s[i] : i \in 1..Len(s)}
IsIn(x, s) == \E i \in 1..Len(s) : s[i] = x
IndexOf(x, s) == CHOOSE i \in 1..Len(s) : s[i] = x
Last(s) == s[Len(s)]
Reverse(s) == [i \in 1..Len(s) |-> s[Len(s) + 1 - i]]

(***************************************************************************)
(* _stmt_in_body                                                           *)
(***************************************************************************)
RECURSIVE stmt_in_body(_, _)
stmt_in_body(body, target_stmt) ==
    \E i \in 1..Len(body) :
        LET stmt == body[i] IN
        \/ stmt = target_stmt
        \/ /\ Kind(stmt) = "If"
           /\ \/ stmt_in_body(Body(stmt), target_stmt)
              \/ stmt_in_body(Orelse(stmt), target_stmt)
        \/ /\ Kind(stmt) \in Loops
           /\ stmt_in_body(Body(stmt), target_stmt)
        \/ /\ Kind(stmt) = "Try"
           /\ \/ stmt_in_body(Body(stmt), target_stmt)
              \/ \E h \in 1..Len(Handlers(stmt)) :
                    stmt_in_body(Body(Handlers(stmt)[h]), target_stmt)
              \/ stmt_in_body(Orelse(stmt), target_stmt)
              \/ stmt_in_body(Finalbody(stmt), target_stmt)

\* the first truthy result of f over the sequence s (Python: loop with
\* `if result: return result`), none when there is no such element
RECURSIVE FirstResult(_, _, _)
FirstResult(results, none, k) ==
    IF k > Len(results) THEN none
    ELSE IF results[k] # none THEN results[k]
    ELSE FirstResult(results, none, k + 1)

(***************************************************************************)
(* _find_parent_loop and _find_containing_loop (the same search)           *)
(***************************************************************************)
RECURSIVE find_in_body(_, _, _, _)
find_in_body(body, k, target, current_loop) ==
    IF k > Len(body) THEN NoNode
    ELSE LET stmt == body[k]
             rest == find_in_body(body, k + 1, target, current_loop)
         IN
         IF stmt = target THEN current_loop
         ELSE IF Kind(stmt) \in Loops THEN
            IF stmt_in_body(Body(stmt), target)
            THEN LET deeper == find_in_body(Body(stmt), 1, target, stmt)
                 IN IF deeper # NoNode THEN deeper ELSE stmt
            ELSE LET result == find_in_body(Body(stmt), 1, target, stmt)
                 IN IF result # NoNode THEN result ELSE rest
         ELSE IF Kind(stmt) = "If" THEN
            LET result == FirstResult(
                    <<find_in_body(Body(stmt), 1, target, current_loop),
                      find_in_body(Orelse(stmt), 1, target, current_loop)>>,
                    NoNode, 1)
            IN IF result # NoNode THEN result ELSE rest
         ELSE IF Kind(stmt) = "Try" THEN
            LET result == FirstResult(
                    <<find_in_body(Body(stmt), 1, target, current_loop)>>
                    \o [h \in 1..Len(Handlers(stmt)) |->
                          find_in_body(Body(Handlers(stmt)[h]), 1, target, current_loop)]
                    \o <<find_in_body(Orelse(stmt), 1, target, current_loop),
                         find_in_body(Finalbody(stmt), 1, target, current_loop)>>,
                    NoNode, 1)
            IN IF result # NoNode THEN result ELSE rest
         ELSE rest

find_parent_loop(func, target_node) == find_in_body(FuncBody(func), 1, target_node, NoNode)

RECURSIVE find_innermost_loop(_, _, _)
find_innermost_loop(body, k, target) ==
    IF k > Len(body) THEN NoNode
    ELSE LET stmt == body[k]
             rest == find_innermost_loop(body, k + 1, target)
         IN
         IF stmt = target THEN NoNode
         ELSE IF Kind(stmt) \in Loops THEN
            IF stmt_in_body(Body(stmt), target)
            THEN LET deeper_loop == find_innermost_loop(Body(stmt), 1, target)
                 IN IF deeper_loop # NoNode THEN deeper_loop ELSE stmt
            ELSE LET result == find_innermost_loop(Body(stmt), 1, target)
                 IN IF result # NoNode THEN result ELSE rest
         ELSE IF Kind(stmt) = "If" THEN
            LET result == FirstResult(
                    <<find_innermost_loop(Body(stmt), 1, target),
                      find_innermost_loop(Orelse(stmt), 1, target)>>, NoNode, 1)
            IN IF result # NoNode THEN result ELSE rest
         ELSE IF Kind(stmt) = "Try" THEN
            LET result == FirstResult(
                    <<find_innermost_loop(Body(stmt), 1, target)>>
                    \o [h \in 1..Len(Handlers(stmt)) |->
                          find_innermost_loop(Body(Handlers(stmt)[h]), 1, target)]
                    \o <<find_innermost_loop(Orelse(stmt), 1, target),
                         find_innermost_loop(Finalbody(stmt), 1, target)>>,
                    NoNode, 1)
            IN IF result # NoNode THEN result ELSE rest
         ELSE rest

find_containing_loop(func, break_stmt) == find_innermost_loop(FuncBody(func), 1, break_stmt)

(***************************************************************************)
(* Block lookups.  bs is self.blocks at the time of the call.              *)
(***************************************************************************)
\* the id of the first block of bs that satisfies P, NoBlock when none does
FirstBlock(bs, P(_)) ==
    IF \E i \in 1..Len(bs) : P(bs[i])
    THEN bs[CHOOSE i \in 1..Len(bs) : P(bs[i]) /\ \A j \in 1..(i - 1) : ~P(bs[j])].id
    ELSE NoBlock

find_block_for_ast_node(bs, ast_node) ==
    LET P(b) == b.ast_node = ast_node IN FirstBlock(bs, P)

SimpleKinds == {"Assign", "AugAssign", "Expr", "Return", "Break", "Continue", "Raise", "Pass"}

\* ast.unparse(stmt).strip() == block['code'].strip(): a block's code is one
\* line, so only a statement that unparses to one line can match
CodeMatches(b, stmt) == Kind(stmt) \in SimpleKinds /\ b.code = Text(stmt)

(***************************************************************************)
(* _find_next_statement_in_function_body                                   *)
(***************************************************************************)
NoContext == [found |-> FALSE, body |-> <<>>, index |-> 0, parent |-> NoNode]

RECURSIVE find_stmt_context_with_parent(_, _, _, _)
find_stmt_context_with_parent(body, k, target, parent_stmt) ==
    IF k > Len(body) THEN NoContext
    ELSE LET stmt == body[k]
             rest == find_stmt_context_with_parent(body, k + 1, target, parent_stmt)
             sub(b) == find_stmt_context_with_parent(b, 1, target, stmt)
             first(rs) == LET hit == {i \in 1..Len(rs) : rs[i].found}
                          IN IF hit = {} THEN rest
                             ELSE rs[CHOOSE i \in hit : \A j \in hit : i <= j]
         IN
         IF stmt = target
         THEN [found |-> TRUE, body |-> body, index |-> k, parent |-> parent_stmt]
         ELSE IF Kind(stmt) \in Loops THEN first(<<sub(Body(stmt))>>)
         ELSE IF Kind(stmt) = "If" THEN first(<<sub(Body(stmt)), sub(Orelse(stmt))>>)
         ELSE IF Kind(stmt) = "Try" THEN
            first(<<sub(Body(stmt))>>
                  \o [h \in 1..Len(Handlers(stmt)) |-> sub(Body(Handlers(stmt)[h]))]
                  \o <<sub(Orelse(stmt)), sub(Finalbody(stmt))>>)
         ELSE rest

RECURSIVE find_next_statement_in_function_body(_, _, _)
find_next_statement_in_function_body(bs, func, target_stmt) ==
    LET context == find_stmt_context_with_parent(FuncBody(func), 1, target_stmt, NoNode)
        bubble == IF context.parent # NoNode
                  THEN find_next_statement_in_function_body(bs, func, context.parent)
                  ELSE NoBlock
    IN
    IF ~context.found THEN NoBlock
    ELSE IF context.index + 1 <= Len(context.body) THEN
        LET next_stmt == context.body[context.index + 1]
            byNode(b) == b.ast_node = next_stmt
            byLine(b) == b.line_number = Lineno(next_stmt) /\ b.function = func
            byCode(b) == /\ CodeMatches(b, next_stmt) /\ b.function = func
                         /\ b.line_number = Lineno(next_stmt)
            found == FirstResult(<<FirstBlock(bs, byNode), FirstBlock(bs, byLine),
                                   FirstBlock(bs, byCode)>>, NoBlock, 1)
        IN IF found # NoBlock THEN found ELSE bubble
    ELSE bubble

(***************************************************************************)
(* _find_next_statement_in_loop_body and ..._by_line                       *)
(***************************************************************************)
RECURSIVE find_if_in_loop_body(_, _, _, _)
find_if_in_loop_body(bs, loop_body, k, target_if) ==
    IF k > Len(loop_body) THEN NoBlock
    ELSE LET stmt == loop_body[k]
             rest == find_if_in_loop_body(bs, loop_body, k + 1, target_if)
         IN
         IF stmt = target_if THEN
            IF k + 1 <= Len(loop_body)
            THEN find_block_for_ast_node(bs, loop_body[k + 1])
            ELSE NoBlock
         ELSE IF Kind(stmt) = "If" THEN
            LET result == FirstResult(
                    <<find_if_in_loop_body(bs, Body(stmt), 1, target_if),
                      find_if_in_loop_body(bs, Orelse(stmt), 1, target_if)>>, NoBlock, 1)
            IN IF result # NoBlock THEN result ELSE rest
         ELSE rest

find_next_statement_in_loop_body(bs, func, if_node) ==
    LET walk == ast_walk(func) IN
    FirstResult([i \in 1..Len(walk) |->
                    IF Kind(walk[i]) \in Loops
                    THEN find_if_in_loop_body(bs, Body(walk[i]), 1, if_node)
                    ELSE NoBlock], NoBlock, 1)

\* the result for one loop of the walk: the statements of its body are
\* scanned for the line of the if; the scan stops at the first one found
by_line_in_loop(bs, loop, if_node) ==
    LET body == Body(loop)
        hits == {i \in 1..Len(body) : Lineno(body[i]) = Lineno(if_node)}
    IN
    IF ~stmt_in_body(body, if_node) \/ hits = {} THEN NoBlock
    ELSE LET i == CHOOSE h \in hits : \A g \in hits : h <= g IN
         IF i + 1 <= Len(body) THEN
            LET next_stmt == body[i + 1]
                byLine(b) == b.line_number = Lineno(next_stmt)
                byCode(b) == CodeMatches(b, next_stmt)
            IN FirstResult(<<FirstBlock(bs, byLine), FirstBlock(bs, byCode)>>, NoBlock, 1)
         ELSE NoBlock

find_next_statement_in_loop_body_by_line(bs, func, if_node) ==
    LET walk == ast_walk(func) IN
    FirstResult([i \in 1..Len(walk) |->
                    IF Kind(walk[i]) \in Loops
                    THEN by_line_in_loop(bs, walk[i], if_node)
                    ELSE NoBlock], NoBlock, 1)

(***************************************************************************)
(* _add_connection                                                         *)
(***************************************************************************)
Conn(from, to, type, cond) == [from |-> from, to |-> to, type |-> type, cond |-> cond]

\* _add_connection without its search for an existing equal connection
add_connection_unchecked(cs, from_block, to_block, connection_type, cond) ==
    Append(cs, Conn(from_block, to_block, connection_type, cond))

add_connection(cs, from_block, to_block, connection_type, cond) ==
    IF \E i \in 1..Len(cs) : /\ cs[i].from = from_block
                             /\ cs[i].to = to_block
                             /\ cs[i].type = connection_type
                             /\ cs[i].cond = cond
    THEN cs
    ELSE Append(cs, Conn(from_block, to_block, connection_type, cond))

\* the list so far is computed before the loop goes on to its next iteration
Evaluated(cs) == Len(cs) >= 0

\* add the connections of the list adds, in order
RECURSIVE add_connections(_, _)
add_connections(cs, adds) ==
    IF adds = <<>> THEN cs
    ELSE LET cs1 == add_connection(cs, Head(adds).from, Head(adds).to, Head(adds).type,
                                   Head(adds).cond)
         IN IF Evaluated(cs1) THEN add_connections(cs1, Tail(adds)) ELSE cs

\* list.remove(x): drop the first element equal to x
RemoveFirst(cs, x) ==
    IF \E i \in 1..Len(cs) : cs[i] = x
    THEN LET i == CHOOSE k \in 1..Len(cs) : cs[k] = x /\ \A j \in 1..(k - 1) : cs[j] # x
         IN SubSeq(cs, 1, i - 1) \o SubSeq(cs, i + 1, Len(cs))
    ELSE cs

(***************************************************************************)
(* _connect_sequential_blocks and _should_create_sequential_connection     *)
(***************************************************************************)
TerminalTypes == {"return", "break", "continue", "raise"}
HeaderTypes == {"for_statement", "while_statement", "if_statement"}

is_block_in_loop_body(current_block, next_block) ==
    LET walk == ast_walk(current_block.function) IN
    \E i \in 1..Len(walk) :
        /\ Kind(walk[i]) \in Loops
        /\ stmt_in_body(Body(walk[i]), current_block.ast_node)
        /\ ~stmt_in_body(Body(walk[i]), next_block.ast_node)

\* the Try statements of the function whose finalbody holds current_node
FinallyOwners(current_node, func) ==
    LET walk == ast_walk(func) IN
    {walk[i] : i \in {j \in 1..Len(walk) :
                        Kind(walk[j]) = "Try" /\ IsIn(current_node, Finalbody(walk[j]))}}

\* func_node.body.index(stmt) raises ValueError for a Try that is not a
\* statement of the function's own body
finally_to_return_raises(current_node, next_node, func) ==
    /\ Kind(next_node) = "Return"
    /\ IsIn(next_node, FuncBody(func))
    /\ \E t \in FinallyOwners(current_node, func) : ~IsIn(t, FuncBody(func))

is_finally_to_return(current_node, next_node, func) ==
    /\ Kind(next_node) = "Return"
    /\ IsIn(next_node, FuncBody(func))
    /\ \E t \in FinallyOwners(current_node, func) :
          /\ IsIn(t, FuncBody(func))
          /\ IndexOf(next_node, FuncBody(func)) = IndexOf(t, FuncBody(func)) + 1

is_top_level_sequential(current_node, next_node, func) ==
    /\ IsIn(current_node, FuncBody(func))
    /\ IsIn(next_node, FuncBody(func))
    /\ IndexOf(next_node, FuncBody(func)) = IndexOf(current_node, FuncBody(func)) + 1

\* the nodes find_execution_order visits below a parent, in order, each one
\* advancing `order` by one; NoNode stands for an expression child
OrderItems(n) ==
    LET exprs == [i \in 1..ExprChildren(n) |-> NoNode] IN
    CASE Kind(n) = "If" ->
            Body(n) \o Body(n) \o Orelse(n) \o exprs \o StmtChildren(n)
      [] Kind(n) = "Try" ->
            Body(n) \o Body(n)
            \o ConcatAll([h \in 1..Len(Handlers(n)) |-> Body(Handlers(n)[h])])
            \o Finalbody(n) \o StmtChildren(n)
      [] Kind(n) \in {"For", "While", "With", "ExceptHandler", "ClassDef"} ->
            Body(n) \o exprs \o StmtChildren(n)
      [] OTHER -> <<>>

NoOrder == -1

RECURSIVE find_execution_order_in(_, _, _, _)
find_execution_order_in(items, k, target_node, current_order) ==
    IF k > Len(items) THEN NoOrder
    ELSE LET order == current_order + k - 1
             below == IF items[k] = NoNode THEN NoOrder
                      ELSE find_execution_order_in(OrderItems(items[k]), 1, target_node, order)
         IN IF items[k] = target_node THEN order
            ELSE IF below # NoOrder THEN below
            ELSE find_execution_order_in(items, k + 1, target_node, current_order)

find_execution_order(target_node, func) ==
    find_execution_order_in(FuncBody(func) \o <<NoNode>> \o FuncBody(func), 1, target_node, 0)

is_same_scope_sequential(current_node, next_node, func) ==
    LET current_order == find_execution_order(current_node, func)
        next_order == find_execution_order(next_node, func)
    IN /\ current_order # NoOrder
       /\ next_order # NoOrder
       /\ next_order = current_order + 1

\* the checks of _connect_sequential_blocks that precede _is_finally_to_return
reaches_finally_check(current_block, next_block) ==
    /\ current_block.type \notin (TerminalTypes \cup HeaderTypes)
    /\ current_block.function = next_block.function
    /\ ~is_block_in_loop_body(current_block, next_block)

should_create_sequential_connection(current_block, next_block) ==
    /\ current_block.function = next_block.function
    /\ ~is_block_in_loop_body(current_block, next_block)
    /\ \/ is_finally_to_return(current_block.ast_node, next_block.ast_node, current_block.function)
       \/ is_top_level_sequential(current_block.ast_node, next_block.ast_node, current_block.function)
       \/ is_same_scope_sequential(current_block.ast_node, next_block.ast_node, current_block.function)

connect_sequential_raises(bs, block_ids) ==
    \E i \in 1..(Len(block_ids) - 1) :
        LET current_block == bs[block_ids[i] + 1]
            next_block == bs[block_ids[i + 1] + 1]
        IN /\ reaches_finally_check(current_block, next_block)
           /\ finally_to_return_raises(current_block.ast_node, next_block.ast_node,
                                       current_block.function)

RECURSIVE connect_sequential_blocks(_, _, _, _)
connect_sequential_blocks(bs, cs, block_ids, i) ==
    IF i > Len(block_ids) - 1 THEN cs
    ELSE LET current_block == bs[block_ids[i] + 1]
             next_block == bs[block_ids[i + 1] + 1]
             cs1 == IF /\ current_block.type \notin (TerminalTypes \cup HeaderTypes)
                       /\ should_create_sequential_connection(current_block, next_block)
                    THEN add_connection(cs, block_ids[i], block_ids[i + 1], "sequential", 0)
                    ELSE cs
         IN IF Evaluated(cs1) THEN connect_sequential_blocks(bs, cs1, block_ids, i + 1) ELSE cs

(***************************************************************************)
(* Exit connections of for, while and if blocks                            *)
(***************************************************************************)
HasConn(cs, from, type) == \E i \in 1..Len(cs) : cs[i].from = from /\ cs[i].type = type

\* _find_generic_loop_exit_target: the first return block of the function at
\* or after the line of the loop block
find_generic_loop_exit_target(bs, loop_block) ==
    LET P(b) == /\ b.function = loop_block.function
                /\ b.line_number >= loop_block.line_number
                /\ b.id # loop_block.id
                /\ b.type = "return"
    IN FirstBlock(bs, P)

\* _find_generic_if_exit_target: the for header block on the line of the if
find_generic_if_exit_target(bs, if_block) ==
    LET P(b) == /\ b.function = if_block.function
                /\ b.line_number = if_block.line_number
                /\ b.id # if_block.id
                /\ b.type = "for_statement"
    IN FirstBlock(bs, P)

\* the exit connection of a header block whose ast_node is not a statement
\* of its own kind (a block of an expanded comprehension)
add_generic_exit_connection(bs, cs, block, type, next_target) ==
    IF block.condition = 0 \/ HasConn(cs, block.id, type) \/ next_target = NoBlock THEN cs
    ELSE add_connection(cs, block.id, next_target, type, block.condition)

add_for_loop_exit_connections(bs, cs, for_block) ==
    IF Kind(for_block.ast_node) # "For"
    THEN add_generic_exit_connection(bs, cs, for_block, "for_not_match",
                                     find_generic_loop_exit_target(bs, for_block))
    ELSE IF HasConn(cs, for_block.id, "for_not_match") THEN cs
    ELSE LET next_target == find_next_statement_in_function_body(
                                bs, for_block.function, for_block.ast_node)
         IN IF next_target # NoBlock
            THEN add_connection(cs, for_block.id, next_target, "for_not_match",
                                for_block.condition)
            ELSE cs

find_while_loop_exit_target(bs, while_node, func) ==
    LET parent_loop == find_parent_loop(func, while_node) IN
    IF parent_loop # NoNode THEN find_block_for_ast_node(bs, parent_loop)
    ELSE find_next_statement_in_function_body(bs, func, while_node)

add_while_loop_exit_connections(bs, cs, while_block) ==
    IF Kind(while_block.ast_node) # "While"
    THEN add_generic_exit_connection(bs, cs, while_block, "condition_false",
                                     find_generic_loop_exit_target(bs, while_block))
    ELSE IF HasConn(cs, while_block.id, "condition_false") THEN cs
    ELSE LET next_target == find_while_loop_exit_target(
                                bs, while_block.ast_node, while_block.function)
         IN IF next_target # NoBlock
            THEN add_connection(cs, while_block.id, next_target, "condition_false",
                                while_block.condition)
            ELSE cs

find_if_statement_exit_target(bs, if_node, func) ==
    LET parent_loop == find_parent_loop(func, if_node) IN
    IF parent_loop # NoNode THEN
        LET next_stmt_in_loop == find_next_statement_in_loop_body(bs, func, if_node) IN
        IF next_stmt_in_loop # NoBlock THEN next_stmt_in_loop
        ELSE find_block_for_ast_node(bs, parent_loop)
    ELSE find_next_statement_in_function_body(bs, func, if_node)

\* _find_implicit_else_target: the same search as _find_if_statement_exit_target
find_implicit_else_target(bs, if_block_id, if_stmt) ==
    LET func == bs[if_block_id + 1].function
        parent_loop == find_parent_loop(func, if_stmt)
    IN
    IF parent_loop # NoNode THEN
        LET next_stmt_in_loop == find_next_statement_in_loop_body(bs, func, if_stmt) IN
        IF next_stmt_in_loop # NoBlock THEN next_stmt_in_loop
        ELSE find_block_for_ast_node(bs, parent_loop)
    ELSE find_next_statement_in_function_body(bs, func, if_stmt)

find_last_executable_blocks_in_branch(bs, branch_blocks, branch_stmts) ==
    IF branch_blocks = <<>> THEN <<>>
    ELSE LET isLast(id) == /\ branch_stmts # <<>>
                           /\ bs[id + 1].ast_node = Last(branch_stmts)
                           /\ bs[id + 1].type \notin TerminalTypes
             last_blocks == SelectSeq(branch_blocks, isLast)
             plain(id) == bs[id + 1].type \notin (TerminalTypes \cup HeaderTypes)
             rev == SelectSeq(Reverse(branch_blocks), plain)
         IN IF last_blocks # <<>> THEN last_blocks
            ELSE IF rev # <<>> THEN <<Head(rev)>>
            ELSE <<>>

add_if_branch_exit_connections(bs, cs, if_stmt, then_blocks, else_blocks) ==
    LET func_name == IF then_blocks # <<>> THEN bs[then_blocks[1] + 1].function
                     ELSE IF else_blocks # <<>> THEN bs[else_blocks[1] + 1].function
                     ELSE NoName
    IN
    IF func_name = NoName THEN cs
    ELSE LET next_stmt_block == find_next_statement_in_function_body(bs, func_name, if_stmt)
             last_then == find_last_executable_blocks_in_branch(bs, then_blocks, Body(if_stmt))
             last_else == find_last_executable_blocks_in_branch(bs, else_blocks, Orelse(if_stmt))
             lasts == last_then \o last_else
         IN IF next_stmt_block = NoBlock THEN cs
            ELSE add_connections(cs, [i \in 1..Len(lasts) |->
                                        Conn(lasts[i], next_stmt_block, "sequential", 0)])

BlockIds(bs, P(_)) ==
    LET ids == [i \in 1..Len(bs) |-> bs[i].id]
        keep(id) == P(bs[id + 1])
    IN SelectSeq(ids, keep)

add_if_statement_exit_connections(bs, cs, if_block) ==
    IF Kind(if_block.ast_node) # "If"
    THEN add_generic_exit_connection(bs, cs, if_block, "condition_false",
                                     find_generic_if_exit_target(bs, if_block))
    ELSE
    LET if_node == if_block.ast_node
        func == if_block.function
        has_else_branch == Orelse(if_node) # <<>>
        has_false_connection == HasConn(cs, if_block.id, "condition_false")
        parent_loop == find_parent_loop(func, if_node)
        by_line == find_next_statement_in_loop_body_by_line(bs, func, if_node)
        cs1 ==
            IF ~has_else_branch /\ ~has_false_connection THEN
                LET next_target ==
                        IF parent_loop # NoNode
                        THEN IF by_line # NoBlock THEN by_line
                             ELSE find_block_for_ast_node(bs, parent_loop)
                        ELSE find_if_statement_exit_target(bs, if_node, func)
                IN IF next_target # NoBlock
                   THEN add_connection(cs, if_block.id, next_target, "condition_false",
                                       if_block.condition)
                   ELSE cs
            ELSE IF ~has_else_branch /\ has_false_connection
                    /\ parent_loop # NoNode /\ by_line # NoBlock THEN
                LET k == CHOOSE i \in 1..Len(cs) :
                            /\ cs[i].from = if_block.id /\ cs[i].type = "condition_false"
                            /\ \A j \in 1..(i - 1) :
                                 ~(cs[j].from = if_block.id /\ cs[j].type = "condition_false")
                    existing_false_conn == cs[k]
                IN IF existing_false_conn.to # by_line
                   THEN add_connection(RemoveFirst(cs, existing_false_conn),
                                       if_block.id, by_line, "condition_false",
                                       if_block.condition)
                   ELSE cs
            ELSE cs
        inThen(b) == b.function = func /\ stmt_in_body(Body(if_node), b.ast_node)
        inElse(b) == /\ b.function = func
                     /\ ~stmt_in_body(Body(if_node), b.ast_node)
                     /\ stmt_in_body(Orelse(if_node), b.ast_node)
    IN add_if_branch_exit_connections(bs, cs1, if_node,
                                      BlockIds(bs, inThen), BlockIds(bs, inElse))

(***************************************************************************)
(* break exits, call stitching, loop_back                                  *)
(***************************************************************************)
find_next_statement_in_try_block(bs, func, for_stmt) ==
    LET walk == ast_walk(func)
        oneTry(t) ==
            IF Kind(t) = "Try" /\ IsIn(for_stmt, Body(t))
                               /\ IndexOf(for_stmt, Body(t)) + 1 <= Len(Body(t))
            THEN find_block_for_ast_node(bs, Body(t)[IndexOf(for_stmt, Body(t)) + 1])
            ELSE NoBlock
    IN FirstResult([i \in 1..Len(walk) |-> oneTry(walk[i])], NoBlock, 1)

find_loop_exit_block(bs, break_block_id) ==
    LET break_block == bs[break_block_id + 1]
        func == break_block.function
        loop_stmt == find_containing_loop(func, break_block.ast_node)
        try_next_stmt == IF Kind(loop_stmt) = "For"
                         THEN find_next_statement_in_try_block(bs, func, loop_stmt)
                         ELSE NoBlock
    IN IF loop_stmt = NoNode THEN NoBlock
       ELSE IF try_next_stmt # NoBlock THEN try_next_stmt
       ELSE find_next_statement_in_function_body(bs, func, loop_stmt)

RECURSIVE add_break_exit_connections(_, _, _)
add_break_exit_connections(bs, cs, i) ==
    IF i > Len(bs) THEN cs
    ELSE LET loop_exit_block == IF bs[i].type = "break"
                                THEN find_loop_exit_block(bs, bs[i].id)
                                ELSE NoBlock
             cs1 == IF loop_exit_block # NoBlock
                    THEN add_connection(cs, bs[i].id, loop_exit_block, "break_exit", 0)
                    ELSE cs
         IN IF Evaluated(cs1) THEN add_break_exit_connections(bs, cs1, i + 1) ELSE cs

find_function_first_block(bs, func_name) ==
    LET P(b) == b.function = func_name IN
    IF func_name \in FuncNames THEN FirstBlock(bs, P) ELSE NoBlock

find_function_return_blocks(bs, func_name) ==
    LET P(b) == b.function = func_name /\ b.type = "return" IN BlockIds(bs, P)

\* the block after the calling block
find_function_call_continuation_successor(call_block, func_call) == call_block.id + 1

\* _find_function_call_continuation: the calling block itself
find_function_call_continuation(call_block, func_call) == call_block.id

\* the connections of one call of one block, the function_call edge left out
call_connections_returns_only(bs, block, func_call) ==
    LET func_return_blocks == find_function_return_blocks(bs, func_call)
    IN IF func_call \notin FuncNames THEN <<>>
       ELSE [r \in 1..Len(func_return_blocks) |->
               Conn(func_return_blocks[r],
                    find_function_call_continuation(block, func_call),
                    "function_return", 0)]

\* the connections one call of one block asks for
call_connections(bs, block, func_call) ==
    LET func_first_block == find_function_first_block(bs, func_call)
        func_return_blocks == find_function_return_blocks(bs, func_call)
    IN IF func_call \notin FuncNames THEN <<>>
       ELSE (IF func_first_block # NoBlock
             THEN <<Conn(block.id, func_first_block, "function_call", 0)>>
             ELSE <<>>)
            \o [r \in 1..Len(func_return_blocks) |->
                  Conn(func_return_blocks[r],
                       find_function_call_continuation(block, func_call),
                       "function_return", 0)]

add_function_call_connections(bs, cs) ==
    add_connections(cs,
        ConcatAll([i \in 1..Len(bs) |->
            ConcatAll([c \in 1..Len(bs[i].function_calls) |->
                call_connections(bs, bs[i], bs[i].function_calls[c])])]))

\* _is_in_loop_body(loop_node, target_node), the definition in force
is_in_loop_body(loop_node, target_node) ==
    /\ Kind(loop_node) \in Loops
    /\ stmt_in_body(Body(loop_node), target_node)

find_loop_body_blocks(bs, loop_node, func_name) ==
    LET P(b) == b.function = func_name /\ is_in_loop_body(loop_node, b.ast_node)
    IN BlockIds(bs, P)

\* ast.walk(parent_stmt) reaches every node below the statement
RECURSIVE is_part_of_statement(_, _)
is_part_of_statement(block_ast, parent_stmt) ==
    \/ block_ast = parent_stmt
    \/ \E i \in 1..Len(StmtChildren(parent_stmt)) :
          is_part_of_statement(block_ast, StmtChildren(parent_stmt)[i])

is_last_path_in_statement(block_ast, parent_stmt) ==
    IF Kind(parent_stmt) = "If" THEN
        \/ Body(parent_stmt) # <<>> /\ block_ast = Last(Body(parent_stmt))
        \/ Orelse(parent_stmt) # <<>> /\ block_ast = Last(Orelse(parent_stmt))
    ELSE IF Kind(parent_stmt) \in Loops THEN
        Body(parent_stmt) # <<>> /\ block_ast = Last(Body(parent_stmt))
    ELSE block_ast = parent_stmt

is_last_executable_block_in_loop(bs, block_id, ast_body) ==
    LET block_ast == bs[block_id + 1].ast_node IN
    /\ ast_body # <<>>
    /\ \/ block_ast = Last(ast_body)
       \/ /\ is_part_of_statement(block_ast, Last(ast_body))
          /\ is_last_path_in_statement(block_ast, Last(ast_body))

find_all_last_executable_blocks(bs, body_blocks, ast_body) ==
    LET keep(id) == /\ bs[id + 1].type \notin {"return", "break", "continue", "if_statement"}
                    /\ is_last_executable_block_in_loop(bs, id, ast_body)
    IN SelectSeq(body_blocks, keep)

JumpTypes == {"return", "break", "continue", "for_not_match", "condition_false", "condition_true"}

\* the loop_back connections of one loop header block
RECURSIVE add_loop_backs(_, _, _)
add_loop_backs(cs, lasts, loop_block_id) ==
    IF lasts = <<>> THEN cs
    ELSE LET last_block == Head(lasts)
             has_other_jump == \E i \in 1..Len(cs) :
                                  cs[i].from = last_block /\ cs[i].type \in JumpTypes
             cs1 == IF has_other_jump THEN cs
                    ELSE add_connection(cs, last_block, loop_block_id, "loop_back", 0)
         IN IF Evaluated(cs1) THEN add_loop_backs(cs1, Tail(lasts), loop_block_id) ELSE cs

RECURSIVE add_loop_back_connections(_, _, _)
add_loop_back_connections(bs, cs, i) ==
    IF i > Len(bs) THEN cs
    ELSE IF bs[i].type \in {"for_statement", "while_statement"} THEN
        LET loop_node == bs[i].ast_node
            body_blocks == find_loop_body_blocks(bs, loop_node, bs[i].function)
            ast_body == IF Kind(loop_node) \in Loops THEN Body(loop_node) ELSE <<>>
            last_body_blocks == find_all_last_executable_blocks(bs, body_blocks, ast_body)
            cs1 == add_loop_backs(cs, last_body_blocks, bs[i].id)
        IN IF Evaluated(cs1) THEN add_loop_back_connections(bs, cs1, i + 1) ELSE cs
    ELSE add_loop_back_connections(bs, cs, i + 1)

(***************************************************************************)
(* _add_control_structure_exit_connections                                 *)
(***************************************************************************)
RECURSIVE add_exit_connections_of_blocks(_, _, _)
add_exit_connections_of_blocks(bs, cs, i) ==
    IF i > Len(bs) THEN cs
    ELSE LET cs1 ==
               CASE bs[i].type = "for_statement" -> add_for_loop_exit_connections(bs, cs, bs[i])
                 [] bs[i].type = "while_statement" ->
                        add_while_loop_exit_connections(bs, cs, bs[i])
                 [] bs[i].type = "if_statement" -> add_if_statement_exit_connections(bs, cs, bs[i])
                 [] OTHER -> cs
         IN IF Evaluated(cs1) THEN add_exit_connections_of_blocks(bs, cs1, i + 1) ELSE cs

add_control_structure_exit_connections(bs, cs) ==
    add_loop_back_connections(bs,
        add_function_call_connections(bs,
            add_break_exit_connections(bs, add_exit_connections_of_blocks(bs, cs, 1), 1)), 1)

(***************************************************************************)
(* Blocks                                                                  *)
(***************************************************************************)
\* list(set(names)): the names in the iteration order of this build
ListOfSet(names) == LET in(f) == f \in names IN SelectSeq(hashOrder, in)

RECURSIVE AllCalls(_)
AllCalls(n) ==
    Calls(n) \cup UNION {AllCalls(StmtChildren(n)[i]) : i \in 1..Len(StmtChildren(n))}

\* _extract_function_calls: the header expression of while, for and if; the
\* whole node, nested body included, for every other statement
extract_function_calls(node) ==
    IF Kind(node) \in {"While", "For", "If"}
    THEN ListOfSet(Calls(node) \cap FuncNames)
    ELSE ListOfSet(AllCalls(node) \cap FuncNames)

BlockType(kind) ==
    CASE kind = "Assign" -> "assign"
      [] kind = "AugAssign" -> "aug_assign"
      [] kind = "Expr" -> "expression"
      [] kind = "Return" -> "return"
      [] kind = "Break" -> "break"
      [] kind = "Continue" -> "continue"
      [] kind = "Raise" -> "raise"
      [] kind = "Pass" -> "pass"
      [] kind = "For" -> "for_statement"
      [] kind = "While" -> "while_statement"
      [] kind = "If" -> "if_statement"
      [] kind = "With" -> "with_statement"
      [] kind = "ExceptHandler" -> "except_handler"
      [] kind = "ClassDef" -> "unknown"

NewBlock(bs, stmt, block_type, func_name, calls, condition, break_target) ==
    [id |-> Len(bs), type |-> block_type, code |-> Text(stmt), ast_node |-> stmt,
     line_number |-> Lineno(stmt), function |-> func_name, function_calls |-> calls,
     condition |-> condition, break_target |-> break_target]

\* the new block's id is one more than len(self.blocks)
create_block_numbered_from_one(bs, stmt, block_type, func_name, condition, break_target) ==
    Append(bs, [NewBlock(bs, stmt, block_type, func_name,
                         extract_function_calls(stmt), condition, break_target)
                   EXCEPT !.id = Len(bs) + 1])

\* _create_block: the new block's id is len(self.blocks)
create_block(bs, stmt, block_type, func_name, condition, break_target) ==
    Append(bs, NewBlock(bs, stmt, block_type, func_name,
                        extract_function_calls(stmt), condition, break_target))

(***************************************************************************)
(* _expand_list_comprehension_return, _expand_generator_expression_return  *)
(***************************************************************************)
\* the code "append(temp_result)" of the collect block of a generator
AppendTempText == -4

\* the text of a block the expansion of a comprehension writes for the for
\* header (part 1), the filter (2), the element (3) and the return (4) of the
\* return statement n, when it reads like no other line
SynthText(n, part) == 0 - (10 * n + part)

\* a block the expansion appends: its ast_node is the return statement
SynthBlock(bs, stmt, block_type, code, func_name, calls, condition) ==
    [NewBlock(bs, stmt, block_type, func_name, calls, condition, NoBlock) EXCEPT !.code = code]

\* the blocks of the expansion, in the order they are appended: the for
\* header, the filter when the generator has an if, the element, the collect
\* block (generator expression only) and the return
RECURSIVE append_synth_blocks(_, _, _, _)
append_synth_blocks(bs, stmt, func_name, parts) ==
    IF parts = <<>> THEN bs
    ELSE LET part == Head(parts)
             b == CASE part = "for" ->
                         SynthBlock(bs, stmt, "for_statement", SynthText(stmt, 1), func_name,
                                    <<>>, stmt)
                    [] part = "if" ->
                         SynthBlock(bs, stmt, "if_statement", SynthText(stmt, 2), func_name,
                                    <<>>, stmt)
                    [] part = "call" ->
                         SynthBlock(bs, stmt, "expression", Comp(stmt).call_text, func_name,
                                    ListOfSet(Comp(stmt).elt_calls \cap FuncNames), 0)
                    [] part = "collect" ->
                         SynthBlock(bs, stmt, "expression", AppendTempText, func_name, <<>>, 0)
                    [] part = "return" ->
                         SynthBlock(bs, stmt, "return", Comp(stmt).return_text, func_name,
                                    <<>>, 0)
         IN append_synth_blocks(Append(bs, b), stmt, func_name, Tail(parts))

expansion_parts(stmt) ==
    <<"for">> \o (IF Comp(stmt).guard THEN <<"if">> ELSE <<>>) \o <<"call">>
    \o (IF Comp(stmt).kind = "gen" THEN <<"collect">> ELSE <<>>) \o <<"return">>

\* the id of the block of a part of the expansion that starts at id first
synth_block_id(stmt, first, part) == first + IndexOf(part, expansion_parts(stmt)) - 1

\* the connections the expansion asks for, in its order
expansion_connections(stmt, first) ==
    LET id(part) == synth_block_id(stmt, first, part)
        is_gen == Comp(stmt).kind = "gen"
        last == IF is_gen THEN id("collect") ELSE id("call")
        to_collect == IF is_gen THEN <<Conn(id("call"), id("collect"), "sequential", 0)>>
                      ELSE <<>>
    IN (IF Comp(stmt).guard
        THEN <<Conn(id("for"), id("if"), "for_match", stmt),
               Conn(id("if"), id("call"), "condition_true", stmt)>>
             \o to_collect
             \o <<Conn(id("if"), id("for"), "condition_false", stmt)>>
        ELSE <<Conn(id("for"), id("call"), "for_match", stmt)>> \o to_collect)
       \o <<Conn(last, id("for"), "loop_back", 0),
            Conn(id("for"), id("return"), "for_not_match", stmt)>>

(***************************************************************************)
(* Local connections made when a compound statement has been processed     *)
(***************************************************************************)
connect_for_loop(cs, for_block_id, body_blocks, else_blocks, stmt) ==
    LET cs1 == IF body_blocks # <<>>
               THEN add_connection(cs, for_block_id, body_blocks[1], "for_match", stmt)
               ELSE cs
    IN IF else_blocks # <<>>
       THEN add_connection(cs1, for_block_id, else_blocks[1], "for_not_match", stmt)
       ELSE cs1

connect_while_loop(bs, cs, while_block_id, body_blocks, else_blocks, stmt) ==
    LET last_body_blocks == find_all_last_executable_blocks(bs, body_blocks, Body(stmt))
        cs1 == IF body_blocks # <<>>
               THEN add_connections(
                        add_connection(cs, while_block_id, body_blocks[1], "condition_true", stmt),
                        [i \in 1..Len(last_body_blocks) |->
                            Conn(last_body_blocks[i], while_block_id, "loop_back", 0)])
               ELSE cs
    IN IF else_blocks # <<>>
       THEN add_connection(cs1, while_block_id, else_blocks[1], "condition_false", stmt)
       ELSE cs1

connect_if_statement(bs, cs, if_block_id, then_blocks, else_blocks, stmt) ==
    LET cs1 == IF then_blocks # <<>>
               THEN add_connection(cs, if_block_id, then_blocks[1], "condition_true", stmt)
               ELSE cs
        implicit_else_target == find_implicit_else_target(bs, if_block_id, stmt)
    IN IF else_blocks # <<>>
       THEN add_connection(cs1, if_block_id, else_blocks[1], "condition_false", stmt)
       ELSE IF implicit_else_target # NoBlock
       THEN add_connection(cs1, if_block_id, implicit_else_target, "condition_false", stmt)
       ELSE cs1

find_last_executable_block(bs, block_ids) ==
    LET ok(id) == bs[id + 1].type \notin TerminalTypes
        rev == SelectSeq(Reverse(block_ids), ok)
    IN IF rev # <<>> THEN Head(rev) ELSE NoBlock

find_try_block_last_executable(bs, try_blocks) ==
    LET isWhile(id) == bs[id + 1].type = "while_statement"
        rev == SelectSeq(Reverse(try_blocks), isWhile)
    IN IF rev # <<>> THEN Head(rev) ELSE find_last_executable_block(bs, try_blocks)

connect_try_statement(bs, cs, try_blocks, except_blocks_list, else_blocks, finally_blocks) ==
    LET exceptions ==
            ConcatAll([t \in 1..Len(try_blocks) |->
                [e \in 1..Len(except_blocks_list) |->
                    Conn(try_blocks[t], except_blocks_list[e][1], "exception", 0)]])
        last_try_block == find_last_executable_block(bs, try_blocks)
        no_exception ==
            IF try_blocks # <<>> /\ else_blocks # <<>> /\ last_try_block # NoBlock
            THEN <<Conn(last_try_block, else_blocks[1], "no_exception", 0)>>
            ELSE <<>>
        lastOf(ids) == IF ids # <<>> /\ find_last_executable_block(bs, ids) # NoBlock
                       THEN <<Conn(find_last_executable_block(bs, ids), finally_blocks[1],
                                   "finally", 0)>>
                       ELSE <<>>
        finallys ==
            IF finally_blocks = <<>> THEN <<>>
            ELSE (IF try_blocks # <<>> /\ find_try_block_last_executable(bs, try_blocks) # NoBlock
                  THEN <<Conn(find_try_block_last_executable(bs, try_blocks),
                              finally_blocks[1], "finally", 0)>>
                  ELSE <<>>)
                 \o ConcatAll([e \in 1..Len(except_blocks_list) |-> lastOf(except_blocks_list[e])])
                 \o lastOf(else_blocks)
    IN add_connections(cs, exceptions \o no_exception \o finallys)

(***************************************************************************)
(* The call stack.  A frame is one activation of _build_function_cfg, of   *)
(* _process_statements_line_by_line or of the _process_* method of a       *)
(* compound statement; parts holds the block lists its calls returned.     *)
(***************************************************************************)
Frame(op, func, node, stmts, header, visited) ==
    [op |-> op, func |-> func, node |-> node, stmts |-> stmts, idx |-> 1, acc |-> <<>>,
     header |-> header, parts |-> <<>>, visited |-> visited, todo |-> <<>>, pc |-> "enter"]

Top == stack[Len(stack)]
Pop(stk) == SubSeq(stk, 1, Len(stk) - 1)
SetTop(stk, f) == [stk EXCEPT ![Len(stk)] = f]

\* the suites _process_* walks after the header, in order
Suites(n) ==
    CASE Kind(n) \in {"If", "For", "While"} ->
            <<Body(n)>> \o (IF Orelse(n) # <<>> THEN <<Orelse(n)>> ELSE <<>>)
      [] Kind(n) = "With" -> <<Body(n)>>
      [] Kind(n) = "Try" ->
            <<Body(n)>> \o [h \in 1..Len(Handlers(n)) |-> Body(Handlers(n)[h])]
            \o (IF Orelse(n) # <<>> THEN <<Orelse(n)>> ELSE <<>>)
            \o (IF Finalbody(n) # <<>> THEN <<Finalbody(n)>> ELSE <<>>)

\* a callee hands its block list to its caller
ReturnTo(stk, result) ==
    IF stk = <<>> THEN stk
    ELSE LET f == stk[Len(stk)] IN
         CASE f.op = "process_statements" ->
                SetTop(stk, [f EXCEPT !.acc = @ \o result, !.idx = @ + 1])
           [] f.op = "build_function_cfg" -> SetTop(stk, [f EXCEPT !.pc = "calls"])
           [] OTHER -> SetTop(stk, [f EXCEPT !.parts = Append(@, result)])

AtStatement ==
    /\ status = "building"
    /\ stack # <<>>
    /\ Top.op = "process_statements"
    /\ Top.idx <= Len(Top.stmts)

CurrentStmt == Top.stmts[Top.idx]

(***************************************************************************)
(* TextCFG.__init__: the registry and the choice of the main function      *)
(***************************************************************************)
\* the choice of self.main_function with the first function standing in
\* for a name that is not found
\* _parse_all_functions: the keys of self.all_functions in the order of
\* ast.walk(self.ast_tree), which visits the tree level by level: the
\* definitions at depth d of the tree, in the order of the text, then those
\* at depth d + 1
RECURSIVE parse_all_functions(_, _)
parse_all_functions(funcs, d) ==
    LET at(f) == f.depth = d
        below(f) == f.depth > d
    IN SelectSeq(funcs, at)
       \o (IF SelectSeq(funcs, below) = <<>> THEN <<>> ELSE parse_all_functions(funcs, d + 1))

\* list(self.all_functions.keys())[0]
first_function == parse_all_functions(prog.funcs, 1)[1].name

choose_main_function_or_first(main) ==
    IF main # NoName /\ main \in FuncNames THEN main
    ELSE IF prog.funcs # <<>> THEN first_function ELSE NoName

\* the choice of self.main_function; NoName where __init__ raises ValueError
choose_main_function(main) ==
    IF main # NoName
    THEN (IF main \notin FuncNames THEN NoName ELSE main)
    ELSE IF prog.funcs # <<>> THEN first_function ELSE NoName

TextCFG_init ==
    /\ builder = "TextCFG"
    /\ status = "new"
    /\ LET chosen == choose_main_function(requested)
       IN IF chosen = NoName
          THEN /\ status' = "error"
               /\ UNCHANGED <<main_function, stack>>
          ELSE /\ status' = "building"
               /\ main_function' = chosen
               /\ stack' = <<Frame("build_function_cfg", chosen, NoNode, <<>>, NoBlock, {})>>
    /\ blocks' = <<>>
    /\ connections' = <<>>
    /\ loop_stack' = <<>>
    /\ try_stack' = <<>>
    /\ UNCHANGED <<hvars, builder, prog, requested, requested_class, hashOrder, cfg_edges, firstGraph, builds>>

(***************************************************************************)
(* _build_function_cfg and _process_function_calls_in_blocks               *)
(***************************************************************************)
\* the frames of _build_function_cfg or _build_method_cfg on the call stack
CallDepth(stk) ==
    Cardinality({i \in 1..Len(stk) : stk[i].op \in {"build_function_cfg", "build_method_cfg"}})

\* visited_functions.add(func_name), left out
visited_add_nothing(visited_functions, func_name) == visited_functions

\* visited_functions.add(func_name)
visited_add(visited_functions, func_name) == visited_functions \cup {func_name}

build_function_cfg ==
    /\ status = "building" /\ stack # <<>>
    /\ Top.op = "build_function_cfg" /\ Top.pc = "enter"
    /\ IF Top.func \in Top.visited \/ Top.func \notin FuncNames
       THEN stack' = Pop(stack)
       ELSE stack' = SetTop(stack, [Top EXCEPT !.visited = visited_add(@, Top.func),
                                               !.pc = "body"])
                     \o <<Frame("process_statements", Top.func, NoNode, FuncBody(Top.func),
                                NoBlock, {})>>
    /\ UNCHANGED <<hvars, builder, prog, requested, requested_class, hashOrder, status, main_function, blocks, connections,
                   loop_stack, try_stack, cfg_edges, firstGraph, builds>>

\* the set functions_to_process, listed in its iteration order
functions_to_process(bs, visited_functions) ==
    ListOfSet({f \in FuncNames :
                 /\ f \notin visited_functions
                 /\ \E i \in 1..Len(bs) : IsIn(f, bs[i].function_calls)})

process_function_calls_in_blocks ==
    /\ status = "building" /\ stack # <<>>
    /\ Top.op = "build_function_cfg" /\ Top.pc = "calls"
    /\ stack' = SetTop(stack, [Top EXCEPT !.todo = functions_to_process(blocks, Top.visited),
                                          !.pc = "loop"])
    /\ UNCHANGED <<hvars, builder, prog, requested, requested_class, hashOrder, status, main_function, blocks, connections,
                   loop_stack, try_stack, cfg_edges, firstGraph, builds>>

\* one iteration of `for func_call in functions_to_process`: the callee gets
\* a copy of visited_functions
expand_callee ==
    /\ status = "building" /\ stack # <<>>
    /\ Top.op = "build_function_cfg" /\ Top.pc = "loop" /\ Top.todo # <<>>
    /\ stack' = SetTop(stack, [Top EXCEPT !.todo = Tail(@)])
                \o <<Frame("build_function_cfg", Head(Top.todo), NoNode, <<>>, NoBlock,
                           Top.visited)>>
    /\ UNCHANGED <<hvars, builder, prog, requested, requested_class, hashOrder, status, main_function, blocks, connections,
                   loop_stack, try_stack, cfg_edges, firstGraph, builds>>

\* visited_functions.remove(func_name) and return
finish_function ==
    /\ status = "building" /\ stack # <<>>
    /\ Top.op = "build_function_cfg" /\ Top.pc = "loop" /\ Top.todo = <<>>
    /\ stack' = Pop(stack)
    /\ UNCHANGED <<hvars, builder, prog, requested, requested_class, hashOrder, status, main_function, blocks, connections,
                   loop_stack, try_stack, cfg_edges, firstGraph, builds>>

(***************************************************************************)
(* _process_single_statement                                               *)
(***************************************************************************)
\* _process_assign, _process_return, _process_break, _process_continue, ...
process_simple_statement ==
    /\ AtStatement
    /\ Kind(CurrentStmt) \in SimpleKinds
    /\ ~(Kind(CurrentStmt) = "Return" /\ Comp(CurrentStmt).kind # "none")
    /\ LET stmt == CurrentStmt
           id == Len(blocks)
           in_loop == loop_stack # <<>>
           break_target == IF Kind(stmt) = "Break" /\ in_loop THEN Last(loop_stack) ELSE NoBlock
       IN /\ blocks' = create_block(blocks, stmt, BlockType(Kind(stmt)), Top.func, 0, break_target)
          /\ connections' = IF Kind(stmt) = "Continue" /\ in_loop
                            THEN add_connection(connections, id, Last(loop_stack), "continue", 0)
                            ELSE connections
          /\ stack' = ReturnTo(stack, <<id>>)
    /\ UNCHANGED <<hvars, builder, prog, requested, requested_class, hashOrder, status, main_function, loop_stack, try_stack,
                   cfg_edges, firstGraph, builds>>

\* _process_return of a return whose value holds a list comprehension or a
\* generator expression
process_return_comprehension ==
    /\ AtStatement
    /\ Kind(CurrentStmt) = "Return" /\ Comp(CurrentStmt).kind # "none"
    /\ LET stmt == CurrentStmt
           first == Len(blocks)
           parts == expansion_parts(stmt)
       IN /\ blocks' = append_synth_blocks(blocks, stmt, Top.func, parts)
          /\ connections' = add_connections(connections, expansion_connections(stmt, first))
          /\ stack' = ReturnTo(stack, [i \in 1..Len(parts) |-> first + i - 1])
    /\ UNCHANGED <<hvars, builder, prog, requested, requested_class, hashOrder, status, main_function, loop_stack, try_stack,
                   cfg_edges, firstGraph, builds>>

\* _process_unknown_statement: a statement _process_single_statement has no
\* case for (here a class definition) makes one block; its body is not walked
process_unknown_statement ==
    /\ AtStatement
    /\ Kind(CurrentStmt) = "ClassDef"
    /\ LET stmt == CurrentStmt
           id == Len(blocks)
       IN /\ blocks' = create_block(blocks, stmt, "unknown", Top.func, 0, NoBlock)
          /\ stack' = ReturnTo(stack, <<id>>)
    /\ UNCHANGED <<hvars, builder, prog, requested, requested_class, hashOrder, status, main_function, connections,
                   loop_stack, try_stack, cfg_edges, firstGraph, builds>>

\* the header block of _process_for_loop, _process_while_loop,
\* _process_if_statement and _process_with_statement, then the body
EnterCompound(kind, op) ==
    /\ AtStatement
    /\ Kind(CurrentStmt) = kind
    /\ LET stmt == CurrentStmt
           id == Len(blocks)
       IN /\ blocks' = create_block(blocks, stmt, BlockType(kind), Top.func,
                                    IF kind = "With" THEN 0 ELSE stmt, NoBlock)
          /\ loop_stack' = IF kind \in Loops THEN Append(loop_stack, id) ELSE loop_stack
          /\ stack' = stack \o <<Frame(op, Top.func, stmt, <<>>, id, {}),
                                 Frame("process_statements", Top.func, NoNode, Body(stmt),
                                       NoBlock, {})>>
    /\ UNCHANGED <<hvars, builder, prog, requested, requested_class, hashOrder, status, main_function, connections, try_stack,
                   cfg_edges, firstGraph, builds>>

process_for_loop == EnterCompound("For", "process_for_loop")
process_while_loop == EnterCompound("While", "process_while_loop")
process_if_statement == EnterCompound("If", "process_if_statement")
process_with_statement == EnterCompound("With", "process_with_statement")

process_try_statement ==
    /\ AtStatement
    /\ Kind(CurrentStmt) = "Try"
    /\ try_stack' = Append(try_stack, CurrentStmt)
    /\ stack' = stack \o <<Frame("process_try_statement", Top.func, CurrentStmt, <<>>,
                                 NoBlock, {}),
                           Frame("process_statements", Top.func, NoNode, Body(CurrentStmt),
                                 NoBlock, {})>>
    /\ UNCHANGED <<hvars, builder, prog, requested, requested_class, hashOrder, status, main_function, blocks, connections,
                   loop_stack, cfg_edges, firstGraph, builds>>

InCompound ==
    /\ status = "building" /\ stack # <<>>
    /\ Top.op \in {"process_for_loop", "process_while_loop", "process_if_statement",
                   "process_with_statement", "process_try_statement"}

\* the else suite of if, for and while; the handlers, else and finally
\* suites of try (the except block is created before its body is processed)
process_next_suite ==
    /\ InCompound
    /\ Len(Top.parts) < Len(Suites(Top.node))
    /\ LET k == Len(Top.parts) + 1
           is_handler == Kind(Top.node) = "Try" /\ k >= 2 /\ k <= 1 + Len(Handlers(Top.node))
           handler == Handlers(Top.node)[k - 1]
           id == Len(blocks)
       IN /\ blocks' = IF is_handler
                       THEN Append(blocks, NewBlock(blocks, handler, "except_handler", Top.func,
                                                    <<>>, 0, NoBlock))
                       ELSE blocks
          /\ stack' = SetTop(stack, [Top EXCEPT !.acc = IF is_handler THEN Append(@, id) ELSE @])
                      \o <<Frame("process_statements", Top.func, NoNode, Suites(Top.node)[k],
                                 NoBlock, {})>>
    /\ UNCHANGED <<hvars, builder, prog, requested, requested_class, hashOrder, status, main_function, connections, loop_stack,
                   try_stack, cfg_edges, firstGraph, builds>>

\* the tail of _process_for_loop, _process_while_loop, _process_if_statement,
\* _process_with_statement and _process_try_statement
finish_compound ==
    /\ InCompound
    /\ Len(Top.parts) = Len(Suites(Top.node))
    /\ LET stmt == Top.node
           parts == Top.parts
           body_blocks == parts[1]
           else_blocks == IF Orelse(stmt) # <<>>
                          THEN parts[1 + Len(Handlers(stmt)) + 1] ELSE <<>>
           nh == Len(Handlers(stmt))
           except_blocks_list == [h \in 1..nh |-> <<Top.acc[h]>> \o parts[1 + h]]
           finally_blocks == IF Kind(stmt) = "Try" /\ Finalbody(stmt) # <<>>
                             THEN parts[Len(parts)] ELSE <<>>
           all_blocks ==
               IF Kind(stmt) = "Try"
               THEN body_blocks \o ConcatAll(except_blocks_list) \o else_blocks \o finally_blocks
               ELSE <<Top.header>> \o ConcatAll(parts)
       IN /\ connections' =
               CASE Kind(stmt) = "For" ->
                      connect_for_loop(connections, Top.header, body_blocks, else_blocks, stmt)
                 [] Kind(stmt) = "While" ->
                      connect_while_loop(blocks, connections, Top.header, body_blocks,
                                         else_blocks, stmt)
                 [] Kind(stmt) = "If" ->
                      connect_if_statement(blocks, connections, Top.header, body_blocks,
                                           else_blocks, stmt)
                 [] Kind(stmt) = "With" ->
                      IF body_blocks # <<>>
                      THEN add_connection(connections, Top.header, body_blocks[1],
                                          "sequential", 0)
                      ELSE connections
                 [] Kind(stmt) = "Try" ->
                      connect_try_statement(blocks, connections, body_blocks,
                                            except_blocks_list, else_blocks, finally_blocks)
          /\ loop_stack' = IF Kind(stmt) \in Loops THEN Pop(loop_stack) ELSE loop_stack
          /\ try_stack' = IF Kind(stmt) = "Try" THEN Pop(try_stack) ELSE try_stack
          /\ stack' = ReturnTo(Pop(stack), all_blocks)
    /\ UNCHANGED <<hvars, builder, prog, requested, requested_class, hashOrder, status, main_function, blocks, cfg_edges,
                   firstGraph, builds>>

\* the tail of _process_statements_line_by_line: the sequential chain of the
\* suite, then the resolution pass over all blocks created so far
finish_statements ==
    /\ status = "building" /\ stack # <<>>
    /\ Top.op = "process_statements"
    /\ Top.idx > Len(Top.stmts)
    /\ IF connect_sequential_raises(blocks, Top.acc)
       THEN /\ status' = "crashed"
            /\ UNCHANGED <<connections, stack>>
       ELSE LET chained == connect_sequential_blocks(blocks, connections, Top.acc, 1)
            IN /\ Evaluated(chained)
               /\ connections' = add_control_structure_exit_connections(blocks, chained)
               /\ stack' = ReturnTo(Pop(stack), Top.acc)
               /\ UNCHANGED status
    /\ UNCHANGED <<hvars, builder, prog, requested, requested_class, hashOrder, main_function, blocks, loop_stack, try_stack,
                   cfg_edges, firstGraph, builds>>

(***************************************************************************)
(* _generate_cfg_text: the edge lines                                      *)
(***************************************************************************)
\* insert x after every element whose (from, to) is not greater (stable)
RECURSIVE InsertSorted(_, _)
InsertSorted(sorted, x) ==
    IF sorted = <<>> THEN <<x>>
    ELSE LET h == Head(sorted)
         IN IF h.from < x.from \/ (h.from = x.from /\ h.to <= x.to)
            THEN <<h>> \o InsertSorted(Tail(sorted), x)
            ELSE <<x>> \o sorted

RECURSIVE sorted_connections(_)
sorted_connections(cs) ==
    IF cs = <<>> THEN <<>>
    ELSE InsertSorted(sorted_connections(SubSeq(cs, 1, Len(cs) - 1)), cs[Len(cs)])

RECURSIVE unique_connections(_, _)
unique_connections(cs, seen) ==
    IF cs = <<>> THEN <<>>
    ELSE IF Head(cs) \in seen THEN unique_connections(Tail(cs), seen)
    ELSE <<Head(cs)>> \o unique_connections(Tail(cs), seen \cup {Head(cs)})

\* the wording of an edge line for a connection type
Phrase(type) ==
    CASE type = "sequential" -> "unconditional"
      [] type = "loop_back" -> "loop back"
      [] type = "continue" -> "continue"
      [] type = "break_exit" -> "break exit"
      [] type = "function_call" -> "function call"
      [] type = "function_return" -> "function return"
      [] type \in {"for_match", "condition_true"} -> "match case"
      [] type \in {"for_not_match", "condition_false"} -> "not match case"
      [] OTHER -> type

Edge(from, phrase, cond, to) == [from |-> from, phrase |-> phrase, cond |-> cond, to |-> to]

\* the edge lines without those from the returns of the main function to END
edge_descriptions_without_end(bs, cs) ==
    LET unique == unique_connections(sorted_connections(cs), {})
    IN [i \in 1..Len(unique) |->
            Edge(unique[i].from, Phrase(unique[i].type), unique[i].cond, unique[i].to)]

\* the edge lines with a line to END for every return block, whatever its function
edge_descriptions_every_return(bs, cs) ==
    LET isReturn(b) == b.type = "return"
        returns == SelectSeq(bs, isReturn)
    IN edge_descriptions_without_end(bs, cs)
       \o [i \in 1..Len(returns) |-> Edge(returns[i].id, "unconditional", 0, Len(bs))]

edge_descriptions(bs, cs) ==
    LET unique == unique_connections(sorted_connections(cs), {})
        end_block_id == Len(bs)
        isMainReturn(b) == b.type = "return" /\ b.function = main_function
        returns == SelectSeq(bs, isMainReturn)
    IN [i \in 1..Len(unique) |->
            Edge(unique[i].from, Phrase(unique[i].type), unique[i].cond, unique[i].to)]
       \o [i \in 1..Len(returns) |-> Edge(returns[i].id, "unconditional", 0, end_block_id)]

generate_cfg_text ==
    /\ builder = "TextCFG"
    /\ status = "building"
    /\ stack = <<>>
    /\ cfg_edges' = edge_descriptions(blocks, connections)
    /\ status' = "done"
    /\ UNCHANGED <<hvars, builder, prog, requested, requested_class, hashOrder, main_function, blocks, connections, loop_stack,
                   try_stack, stack, firstGraph, builds>>

(***************************************************************************)
(* JavaCFG (src/java_cfg_builder.py).  The builder works on the statement  *)
(* strings of a method body.  A statement is known here by what the        *)
(* builder reads off its string: the keyword it starts with (a keyword is  *)
(* followed by a blank), the braces it opens and closes, the methods it    *)
(* calls and its text; "{" and "}" are the statements that read so.        *)
(***************************************************************************)
JavaStmt(kind, open, close, calls, text) ==
    [kind |-> kind, open |-> open, close |-> close, calls |-> calls, text |-> text]

Extracted(statements, consumed) == [statements |-> statements, consumed |-> consumed]

\* the loop of _extract_control_structure_block from statement i on
RECURSIVE control_structure_lines(_, _, _, _, _)
control_structure_lines(statements, i, brace_count, acc, consumed) ==
    IF i > Len(statements) \/ brace_count <= 0 THEN Extracted(acc, consumed)
    ELSE LET line == statements[i]
             count == brace_count + line.open - line.close
         IN IF count = 0 THEN Extracted(Append(acc, line), consumed + 1)
            ELSE control_structure_lines(statements, i + 1, count, Append(acc, line),
                                         consumed + 1)

extract_control_structure_block(statements) ==
    LET control_header == statements[1]
    IN IF control_header.open > 0
       THEN control_structure_lines(statements, 2,
                                    control_header.open - control_header.close,
                                    <<control_header>>, 1)
       ELSE Extracted(<<control_header>>, 1)

\* the loop of _extract_block_statements from statement i on
RECURSIVE block_lines(_, _, _, _, _, _)
block_lines(statements, i, brace_count, found_opening_brace, acc, consumed) ==
    IF i > Len(statements) THEN Extracted(acc, consumed)
    ELSE LET line == statements[i]
             count == brace_count + line.open - line.close
         IN IF line.kind = "{"
            THEN block_lines(statements, i + 1, count, TRUE, acc, consumed + 1)
            ELSE IF line.kind = "}" /\ count = 0 /\ found_opening_brace
            THEN Extracted(acc, consumed + 1)
            ELSE IF found_opening_brace /\ count > 0
            THEN block_lines(statements, i + 1, count, TRUE, Append(acc, line), consumed + 1)
            ELSE IF ~found_opening_brace /\ i = 1
            THEN IF line.kind \in {"for", "while", "if", "switch"}
                 THEN extract_control_structure_block(statements)
                 ELSE Extracted(Append(acc, line), consumed + 1)
            ELSE block_lines(statements, i + 1, count, found_opening_brace, acc, consumed)

extract_block_statements(statements) == block_lines(statements, 1, 0, FALSE, <<>>, 0)

\* the loop of _extract_java_for_body from statement i on
RECURSIVE for_body_lines(_, _, _, _, _)
for_body_lines(statements, i, brace_count, acc, consumed) ==
    IF i > Len(statements) \/ brace_count <= 0 THEN Extracted(acc, consumed)
    ELSE LET line == statements[i]
             count == brace_count + line.open - line.close
         IN IF count > 0
            THEN for_body_lines(statements, i + 1, count, Append(acc, line), consumed + 1)
            ELSE IF count = 0 /\ line.kind = "}"
            THEN Extracted(acc, consumed + 1)
            ELSE for_body_lines(statements, i + 1, count, acc, consumed + 1)

extract_java_for_body(statements) ==
    LET for_header == statements[1]
    IN IF for_header.open > 0
       THEN for_body_lines(statements, 2, for_header.open - for_header.close, <<>>, 0)
       ELSE extract_block_statements(Tail(statements))

\* _extract_java_method_calls: list(set(...)) of the called names that are methods
extract_java_method_calls(stmt) == ListOfSet(stmt.calls \cap FuncNames)

\* _create_java_block: the new block's id is len(self.blocks)
create_java_block(bs, stmt, block_type, method_name, line_number, is_control_structure) ==
    Append(bs, [id |-> Len(bs), type |-> block_type, code |-> stmt.text,
                line_number |-> line_number, method |-> method_name,
                method_calls |-> extract_java_method_calls(stmt),
                is_control_structure |-> is_control_structure,
                condition |-> IF is_control_structure THEN stmt.text ELSE 0,
                then_blocks |-> <<>>, body_blocks |-> <<>>, break_target |-> NoBlock])

JavaJumpTypes == {"return", "break", "continue", "throw"}

\* JavaCFG._connect_sequential_blocks, from position i of block_ids on
RECURSIVE java_connect_sequential_blocks(_, _, _, _)
java_connect_sequential_blocks(bs, cs, block_ids, i) ==
    IF i >= Len(block_ids) THEN cs
    ELSE LET current_block == bs[block_ids[i] + 1]
             cs1 == IF /\ current_block.type \notin JavaJumpTypes
                       /\ ~current_block.is_control_structure
                    THEN add_connection(cs, block_ids[i], block_ids[i + 1], "sequential", 0)
                    ELSE cs
         IN IF Evaluated(cs1) THEN java_connect_sequential_blocks(bs, cs1, block_ids, i + 1)
            ELSE cs

\* the builder's fields while statements are processed, and what a
\* _process_java_* call returns: the block ids and the statements consumed
Built(bs, cs, ls, crashed) == [bs |-> bs, cs |-> cs, ls |-> ls, crashed |-> crashed]
Processed(s, ids, consumed) ==
    [bs |-> s.bs, cs |-> s.cs, ls |-> s.ls, crashed |-> s.crashed, ids |-> ids,
     consumed |-> consumed]

RECURSIVE process_java_statements_from(_, _, _, _, _)
RECURSIVE process_single_java_statement(_, _, _, _)

\* _process_java_statements
process_java_statements(s, statements, method_name) ==
    process_java_statements_from(s, statements, 1, <<>>, method_name)

process_java_statements_from(s, statements, i, block_ids, method_name) ==
    IF s.crashed THEN Processed(s, block_ids, 0)
    ELSE IF i > Len(statements)
    THEN Processed(Built(s.bs, java_connect_sequential_blocks(s.bs, s.cs, block_ids, 1),
                         s.ls, FALSE), block_ids, 0)
    ELSE LET r == process_single_java_statement(s, SubSeq(statements, i, Len(statements)),
                                                method_name, i)
         IN IF Evaluated(r.cs)
            THEN process_java_statements_from(Built(r.bs, r.cs, r.ls, r.crashed), statements,
                                              i + r.consumed, block_ids \o r.ids, method_name)
            ELSE r

\* the body of an if, an else or a loop, when there is one
process_java_body(s, body_statements, method_name) ==
    IF body_statements # <<>> THEN process_java_statements(s, body_statements, method_name)
    ELSE Processed(s, <<>>, 0)

\* _process_java_if (and _process_java_else_if, which hands it the if part)
process_java_if(s, statements, method_name, line_number) ==
    LET if_line == statements[1]
        if_block_id == Len(s.bs)
        bs1 == create_java_block(s.bs, if_line, "if_statement", method_name, line_number, TRUE)
        then == extract_block_statements(Tail(statements))
        r == process_java_body(Built(bs1, s.cs, s.ls, FALSE), then.statements, method_name)
        then_blocks == r.ids
        cs1 == IF then_blocks # <<>> /\ ~r.crashed
               THEN add_connection(r.cs, if_block_id, then_blocks[1], "condition_true",
                                   if_line.text)
               ELSE r.cs
        bs2 == [r.bs EXCEPT ![if_block_id + 1].then_blocks = then_blocks]
    IN Processed(Built(bs2, cs1, r.ls, r.crashed), <<if_block_id>> \o then_blocks,
                 1 + then.consumed)

\* _process_java_else
process_java_else(s, statements, method_name, line_number) ==
    LET else == extract_block_statements(Tail(statements))
        r == process_java_body(s, else.statements, method_name)
    IN Processed(r, r.ids, 1 + else.consumed)

\* _process_java_while: body_blocks[0] is read whenever body statements were
\* extracted, also when they made no block
process_java_while(s, statements, method_name, line_number) ==
    LET while_line == statements[1]
        while_block_id == Len(s.bs)
        bs1 == create_java_block(s.bs, while_line, "while_statement", method_name,
                                 line_number, TRUE)
        body == extract_block_statements(Tail(statements))
        r == process_java_body(Built(bs1, s.cs, Append(s.ls, while_block_id), FALSE),
                               body.statements, method_name)
        body_blocks == r.ids
        raises == body.statements # <<>> /\ body_blocks = <<>>
        cs1 == IF body_blocks # <<>> /\ ~r.crashed
               THEN add_connection(r.cs, while_block_id, body_blocks[1], "condition_true",
                                   while_line.text)
               ELSE r.cs
        bs2 == [r.bs EXCEPT ![while_block_id + 1].body_blocks = body_blocks]
    IN IF r.crashed \/ raises
       THEN Processed(Built(r.bs, r.cs, r.ls, TRUE), <<while_block_id>> \o body_blocks, 1)
       ELSE Processed(Built(bs2, cs1, Pop(r.ls), FALSE), <<while_block_id>> \o body_blocks,
                      1 + body.consumed)

\* _process_java_for and _connect_java_for_loop
process_java_for(s, statements, method_name, line_number) ==
    LET for_line == statements[1]
        for_block_id == Len(s.bs)
        bs1 == create_java_block(s.bs, for_line, "for_statement", method_name, line_number,
                                 TRUE)
        body == extract_java_for_body(statements)
        r == process_java_body(Built(bs1, s.cs, Append(s.ls, for_block_id), FALSE),
                               body.statements, method_name)
        body_blocks == r.ids
        cs1 == IF body_blocks # <<>> /\ ~r.crashed
               THEN add_connection(r.cs, for_block_id, body_blocks[1], "condition_true",
                                   for_line.text)
               ELSE r.cs
        bs2 == [r.bs EXCEPT ![for_block_id + 1].body_blocks = body_blocks]
    IN IF r.crashed
       THEN Processed(r, <<for_block_id>> \o body_blocks, 1)
       ELSE Processed(Built(bs2, cs1, Pop(r.ls), FALSE), <<for_block_id>> \o body_blocks,
                      1 + body.consumed)

\* _process_java_return, _process_java_break, _process_java_continue,
\* _process_java_throw and _process_java_assignment (a statement that ends
\* with ";" is an expression)
process_java_simple(s, stmt, method_name, line_number) ==
    LET block_id == Len(s.bs)
        block_type == IF stmt.kind \in JavaJumpTypes THEN stmt.kind ELSE "expression"
        bs1 == create_java_block(s.bs, stmt, block_type, method_name, line_number, FALSE)
        in_loop == s.ls # <<>>
        bs2 == IF stmt.kind = "break" /\ in_loop
               THEN [bs1 EXCEPT ![block_id + 1].break_target = Last(s.ls)]
               ELSE bs1
        cs1 == IF stmt.kind = "continue" /\ in_loop
               THEN add_connection(s.cs, block_id, Last(s.ls), "continue", 0)
               ELSE s.cs
    IN Processed(Built(bs2, cs1, s.ls, FALSE), <<block_id>>, 1)

\* _process_single_java_statement
process_single_java_statement(s, statements, method_name, line_number) ==
    LET stmt == statements[1]
    IN CASE stmt.kind \in {"{", "}"} -> Processed(s, <<>>, 1)
         [] stmt.kind \in {"if", "else if"} ->
                process_java_if(s, statements, method_name, line_number)
         [] stmt.kind = "else" -> process_java_else(s, statements, method_name, line_number)
         [] stmt.kind = "for" -> process_java_for(s, statements, method_name, line_number)
         [] stmt.kind = "while" -> process_java_while(s, statements, method_name, line_number)
         [] OTHER -> process_java_simple(s, stmt, method_name, line_number)

(***************************************************************************)
(* JavaCFG._add_java_control_structure_connections                         *)
(***************************************************************************)
JavaLoopTypes == {"for_statement", "while_statement"}

\* _find_corresponding_else_block: the scan stops at the first for loop or return
find_corresponding_else_block(bs, if_block_id, then_blocks) ==
    LET method_name == bs[if_block_id + 1].method
        after(b) == /\ b.id > if_block_id
                    /\ b.method = method_name
                    /\ ~IsIn(b.id, then_blocks)
        stop(b) == after(b) /\ b.type \in {"for_statement", "return"}
        hit == FirstBlock(bs, stop)
    IN IF /\ Len(then_blocks) = 1
          /\ bs[then_blocks[1] + 1].type = "for_statement"
          /\ hit # NoBlock
          /\ bs[hit + 1].type = "for_statement"
       THEN hit
       ELSE NoBlock

\* _find_parent_loop_for_if
find_parent_loop_for_if(bs, if_block_id) ==
    LET method_name == bs[if_block_id + 1].method
        parent(b) == /\ b.method = method_name
                     /\ b.type \in JavaLoopTypes
                     /\ b.id < if_block_id
                     /\ IsIn(if_block_id, b.body_blocks)
    IN FirstBlock(bs, parent)

\* _collect_all_nested_blocks: the then branches of the if blocks among block_ids
RECURSIVE collect_all_nested_blocks(_, _)
collect_all_nested_blocks(bs, block_ids) ==
    UNION {IF block_ids[k] < Len(bs) /\ bs[block_ids[k] + 1].type = "if_statement"
           THEN SeqToSet(bs[block_ids[k] + 1].then_blocks)
                \cup collect_all_nested_blocks(bs, bs[block_ids[k] + 1].then_blocks)
           ELSE {} : k \in 1..Len(block_ids)}

\* _find_next_sibling_in_loop_body
find_next_sibling_in_loop_body(bs, if_block_id, parent_loop_id) ==
    LET body_blocks == bs[parent_loop_id + 1].body_blocks
        then_blocks == bs[if_block_id + 1].then_blocks
        nested_blocks == SeqToSet(then_blocks) \cup collect_all_nested_blocks(bs, then_blocks)
        if_index == IndexOf(if_block_id, body_blocks)
        siblings == {i \in (if_index + 1)..Len(body_blocks) : body_blocks[i] \notin nested_blocks}
    IN IF ~IsIn(if_block_id, body_blocks) \/ siblings = {} THEN NoBlock
       ELSE body_blocks[CHOOSE i \in siblings : \A j \in siblings : i <= j]

\* _find_if_false_target
find_if_false_target(bs, if_block_id, then_blocks) ==
    LET method_name == bs[if_block_id + 1].method
        else_block == find_corresponding_else_block(bs, if_block_id, then_blocks)
        parent_loop == find_parent_loop_for_if(bs, if_block_id)
        body_blocks == bs[parent_loop + 1].body_blocks
        next_sibling == find_next_sibling_in_loop_body(bs, if_block_id, parent_loop)
        later(b) == /\ b.id > if_block_id
                    /\ b.method = method_name
                    /\ ~IsIn(b.id, then_blocks)
    IN IF else_block # NoBlock THEN else_block
       ELSE IF parent_loop # NoBlock
       THEN IF body_blocks # <<>> /\ body_blocks[1] = if_block_id THEN parent_loop
            ELSE IF next_sibling # NoBlock THEN next_sibling
            ELSE parent_loop
       ELSE FirstBlock(bs, later)

\* _add_if_condition_false_connections, from block i on
RECURSIVE add_if_condition_false_connections(_, _, _)
add_if_condition_false_connections(bs, cs, i) ==
    IF i > Len(bs) THEN cs
    ELSE LET block == bs[i]
             false_target == find_if_false_target(bs, block.id, block.then_blocks)
             cs1 == IF /\ block.type = "if_statement"
                       /\ block.is_control_structure
                       /\ false_target # NoBlock
                    THEN add_connection(cs, block.id, false_target, "condition_false",
                                        block.condition)
                    ELSE cs
         IN IF Evaluated(cs1) THEN add_if_condition_false_connections(bs, cs1, i + 1) ELSE cs

\* del self.connections[i] for every index i that satisfies wrong
RemoveAll(cs, wrong(_)) == LET keep(c) == ~wrong(c) IN SelectSeq(cs, keep)

\* _remove_wrong_loop_connections
remove_wrong_loop_connections(cs, loop_block_id, body_blocks) ==
    LET wrong(c) == /\ c.from = loop_block_id
                    /\ c.type = "condition_false"
                    /\ IsIn(c.to, body_blocks)
    IN RemoveAll(cs, wrong)

\* _get_all_loop_blocks, as a set
get_all_loop_blocks(bs, loop_block_id, body_blocks, method_name) ==
    IF body_blocks = <<>> THEN {}
    ELSE LET ids == SeqToSet(body_blocks)
             min_body == CHOOSE x \in ids : \A y \in ids : x <= y
             max_body == CHOOSE x \in ids : \A y \in ids : x >= y
         IN ids \cup {bs[k].id : k \in {j \in 1..Len(bs) : /\ bs[j].id > min_body
                                                          /\ bs[j].id < max_body
                                                          /\ bs[j].method = method_name}}

\* _find_loop_false_target
find_loop_false_target(bs, loop_block_id, body_blocks) ==
    LET method_name == bs[loop_block_id + 1].method
        all_loop_blocks == get_all_loop_blocks(bs, loop_block_id, body_blocks, method_name)
        after(b) == /\ b.id > loop_block_id
                    /\ b.method = method_name
                    /\ b.id \notin all_loop_blocks
    IN FirstBlock(bs, after)

\* _add_loop_condition_false_connections, from block i on
RECURSIVE add_loop_condition_false_connections(_, _, _)
add_loop_condition_false_connections(bs, cs, i) ==
    IF i > Len(bs) THEN cs
    ELSE LET block == bs[i]
             is_loop == block.type \in JavaLoopTypes /\ block.is_control_structure
             kept == remove_wrong_loop_connections(cs, block.id, block.body_blocks)
             false_target == find_loop_false_target(bs, block.id, block.body_blocks)
             cs1 == IF ~is_loop THEN cs
                    ELSE IF false_target # NoBlock
                    THEN add_connection(kept, block.id, false_target, "condition_false",
                                        block.condition)
                    ELSE kept
         IN IF Evaluated(cs1) THEN add_loop_condition_false_connections(bs, cs1, i + 1)
            ELSE cs

\* _find_java_loop_last_blocks, in ascending order of id
find_java_loop_last_blocks(bs, cs, loop_block_id, body_blocks) ==
    LET all_loop_blocks == get_all_loop_blocks(bs, loop_block_id, body_blocks,
                                               bs[loop_block_id + 1].method)
        has_internal_connection(block_id) ==
            \E k \in 1..Len(cs) : /\ cs[k].from = block_id
                                  /\ cs[k].to \in all_loop_blocks
                                  /\ cs[k].type # "loop_back"
        last(b) == /\ b.id \in all_loop_blocks
                   /\ ~has_internal_connection(b.id)
                   /\ b.type \notin {"for_statement", "while_statement", "if_statement"}
        lasts == SelectSeq(bs, last)
    IN [k \in 1..Len(lasts) |-> lasts[k].id]

\* the loop_back connections of one loop
RECURSIVE add_java_loop_backs(_, _, _, _)
add_java_loop_backs(bs, cs, last_blocks, loop_block_id) ==
    IF last_blocks = <<>> THEN cs
    ELSE LET cs1 == IF bs[Head(last_blocks) + 1].type \notin JavaJumpTypes
                    THEN add_connection(cs, Head(last_blocks), loop_block_id, "loop_back", 0)
                    ELSE cs
         IN IF Evaluated(cs1) THEN add_java_loop_backs(bs, cs1, Tail(last_blocks), loop_block_id)
            ELSE cs

\* _add_java_loop_back_connections, from block i on
RECURSIVE add_java_loop_back_connections(_, _, _)
add_java_loop_back_connections(bs, cs, i) ==
    IF i > Len(bs) THEN cs
    ELSE LET block == bs[i]
             cs1 == IF /\ block.type \in JavaLoopTypes
                       /\ block.is_control_structure
                       /\ block.body_blocks # <<>>
                    THEN add_java_loop_backs(bs, cs,
                             find_java_loop_last_blocks(bs, cs, block.id, block.body_blocks),
                             block.id)
                    ELSE cs
         IN IF Evaluated(cs1) THEN add_java_loop_back_connections(bs, cs1, i + 1) ELSE cs

\* the number of block ids after a loop header that _is_block_in_loop takes
\* for the loop
LoopSpan == 50

\* _is_block_in_loop
java_is_block_in_loop(bs, block, loop_header_id) ==
    /\ block.method = bs[loop_header_id + 1].method
    /\ block.id > loop_header_id
    /\ block.id < loop_header_id + LoopSpan

\* _find_loop_exit_target
find_loop_exit_target(bs, loop_header_id) ==
    LET loop_method == bs[loop_header_id + 1].method
        outside(b) == /\ b.method = loop_method
                      /\ b.id > loop_header_id
                      /\ b.type \notin {"break", "continue"}
                      /\ ~java_is_block_in_loop(bs, b, loop_header_id)
    IN FirstBlock(bs, outside)

\* the break loop of _add_java_control_structure_connections, from block i on
RECURSIVE add_java_break_exit_connections(_, _, _)
add_java_break_exit_connections(bs, cs, i) ==
    IF i > Len(bs) THEN cs
    ELSE LET block == bs[i]
             has_target == block.type = "break" /\ block.break_target # NoBlock
             exit_target == find_loop_exit_target(bs, block.break_target)
             cs1 == IF has_target /\ exit_target # NoBlock
                    THEN add_connection(cs, block.id, exit_target, "break_exit", 0)
                    ELSE cs
         IN IF Evaluated(cs1) THEN add_java_break_exit_connections(bs, cs1, i + 1) ELSE cs

\* _find_method_first_block
find_method_first_block(bs, method_name) ==
    LET owned(b) == b.method = method_name IN FirstBlock(bs, owned)

\* _find_method_return_blocks
find_method_return_blocks(bs, method_name) ==
    LET returns(b) == b.method = method_name /\ b.type = "return"
        found == SelectSeq(bs, returns)
    IN [k \in 1..Len(found) |-> found[k].id]

\* the connections of one method call of a block
method_call_connections(bs, block, method_call) ==
    LET method_first_block == find_method_first_block(bs, method_call)
        method_return_blocks == find_method_return_blocks(bs, method_call)
    IN (IF method_first_block # NoBlock
        THEN <<Conn(block.id, method_first_block, "method_call", 0)>> ELSE <<>>)
       \o [k \in 1..Len(method_return_blocks) |->
               Conn(method_return_blocks[k], block.id, "method_return", 0)]

\* _add_java_method_call_connections
add_java_method_call_connections(bs, cs) ==
    add_connections(cs,
        ConcatAll([i \in 1..Len(bs) |->
            ConcatAll([k \in 1..Len(bs[i].method_calls) |->
                IF bs[i].method_calls[k] \in FuncNames
                THEN method_call_connections(bs, bs[i], bs[i].method_calls[k])
                ELSE <<>>])]))

\* no connection is removed
keep_conflicting_sequential_connections(cs) == cs

\* _remove_conflicting_sequential_connections
remove_conflicting_sequential_connections(cs) ==
    LET blocks_with_loop_back == {cs[k].from : k \in {j \in 1..Len(cs) : cs[j].type = "loop_back"}}
        conflicting(c) == c.type = "sequential" /\ c.from \in blocks_with_loop_back
    IN RemoveAll(cs, conflicting)

(***************************************************************************)
(* JavaCFG.__init__, _build_complete_cfg and _build_method_cfg.  The frame *)
(* of _build_complete_cfg lies under the frames of _build_method_cfg; its  *)
(* pc names the pass of _add_java_control_structure_connections to run.    *)
(***************************************************************************)
ClassNames == {prog.classes[i] : i \in 1..Len(prog.classes)}

AtJava(op, pc) ==
    /\ builder = "JavaCFG"
    /\ status = "building"
    /\ stack # <<>>
    /\ Top.op = op
    /\ Top.pc = pc

JavaCFG_init ==
    /\ builder = "JavaCFG"
    /\ status = "new"
    /\ LET first_class == IF prog.classes # <<>> THEN prog.classes[1] ELSE NoName
           target_class == IF requested_class # NoName THEN requested_class ELSE first_class
           in_class(m) == m.class = target_class
           class_methods == SelectSeq(prog.funcs, in_class)
           target_method == IF requested # NoName THEN requested
                            ELSE IF class_methods # <<>> THEN class_methods[1].name
                            ELSE NoName
       IN IF \/ requested_class # NoName /\ requested_class \notin ClassNames
             \/ requested # NoName /\ requested \notin FuncNames
             \/ target_method = NoName
          THEN /\ status' = "error"
               /\ UNCHANGED <<main_function, blocks, connections, loop_stack, try_stack, stack>>
          ELSE /\ status' = "building"
               /\ main_function' = target_method
               /\ blocks' = <<>>
               /\ connections' = <<>>
               /\ loop_stack' = <<>>
               /\ try_stack' = <<>>
               /\ stack' = <<[Frame("build_complete_cfg", target_method, NoNode, <<>>, NoBlock,
                                    {}) EXCEPT !.pc = "if_condition_false"],
                             Frame("build_method_cfg", target_method, NoNode, <<>>, NoBlock,
                                   {})>>
    /\ UNCHANGED <<hvars, builder, prog, requested, requested_class, hashOrder, cfg_edges, firstGraph,
                   builds>>

\* _build_method_cfg up to its call of _process_method_calls_in_blocks
build_method_cfg ==
    /\ AtJava("build_method_cfg", "enter")
    /\ IF Top.func \in Top.visited \/ Top.func \notin FuncNames
       THEN /\ stack' = Pop(stack)
            /\ UNCHANGED <<status, blocks, connections, loop_stack>>
       ELSE LET r == process_java_statements(Built(blocks, connections, loop_stack, FALSE),
                                             FuncBody(Top.func), Top.func)
            IN /\ Evaluated(r.cs)
               /\ blocks' = r.bs
               /\ connections' = r.cs
               /\ loop_stack' = r.ls
               /\ status' = IF r.crashed THEN "crashed" ELSE status
               /\ stack' = SetTop(stack, [Top EXCEPT !.visited = visited_add(@, Top.func),
                                                     !.pc = "calls"])
    /\ UNCHANGED <<hvars, builder, prog, requested, requested_class, hashOrder, main_function,
                   try_stack, cfg_edges, firstGraph, builds>>

\* the set methods_to_process, listed in its iteration order
methods_to_process(bs, visited_methods) ==
    ListOfSet({m \in FuncNames :
                 /\ m \notin visited_methods
                 /\ \E i \in 1..Len(bs) : IsIn(m, bs[i].method_calls)})

process_method_calls_in_blocks ==
    /\ AtJava("build_method_cfg", "calls")
    /\ stack' = SetTop(stack, [Top EXCEPT !.todo = methods_to_process(blocks, Top.visited),
                                          !.pc = "loop"])
    /\ UNCHANGED <<hvars, builder, prog, requested, requested_class, hashOrder, status, main_function,
                   blocks, connections, loop_stack, try_stack, cfg_edges, firstGraph, builds>>

\* one iteration of `for method_call in methods_to_process`: the callee gets
\* a copy of visited_methods
expand_method ==
    /\ AtJava("build_method_cfg", "loop")
    /\ Top.todo # <<>>
    /\ stack' = SetTop(stack, [Top EXCEPT !.todo = Tail(@)])
                \o <<Frame("build_method_cfg", Head(Top.todo), NoNode, <<>>, NoBlock,
                           Top.visited)>>
    /\ UNCHANGED <<hvars, builder, prog, requested, requested_class, hashOrder, status, main_function,
                   blocks, connections, loop_stack, try_stack, cfg_edges, firstGraph, builds>>

\* visited_methods.remove(method_name) and return
finish_method ==
    /\ AtJava("build_method_cfg", "loop")
    /\ Top.todo = <<>>
    /\ stack' = Pop(stack)
    /\ UNCHANGED <<hvars, builder, prog, requested, requested_class, hashOrder, status, main_function,
                   blocks, connections, loop_stack, try_stack, cfg_edges, firstGraph, builds>>

\* one pass of _add_java_control_structure_connections
JavaPass(pc, cs, next) ==
    /\ AtJava("build_complete_cfg", pc)
    /\ connections' = cs
    /\ stack' = IF next = "return" THEN Pop(stack) ELSE SetTop(stack, [Top EXCEPT !.pc = next])
    /\ UNCHANGED <<hvars, builder, prog, requested, requested_class, hashOrder, status, main_function,
                   blocks, loop_stack, try_stack, cfg_edges, firstGraph, builds>>

java_if_condition_false_pass ==
    JavaPass("if_condition_false", add_if_condition_false_connections(blocks, connections, 1),
             "loop_condition_false")

java_loop_condition_false_pass ==
    JavaPass("loop_condition_false",
             add_loop_condition_false_connections(blocks, connections, 1), "loop_back")

java_loop_back_pass ==
    JavaPass("loop_back", add_java_loop_back_connections(blocks, connections, 1), "break_exit")

java_break_exit_pass ==
    JavaPass("break_exit", add_java_break_exit_connections(blocks, connections, 1),
             "method_call")

java_method_call_pass ==
    JavaPass("method_call", add_java_method_call_connections(blocks, connections),
             "remove_conflicting")

java_remove_conflicting_pass ==
    JavaPass("remove_conflicting", remove_conflicting_sequential_connections(connections),
             "return")

(***************************************************************************)
(* JavaCFG._generate_cfg_text: the edge lines                              *)
(***************************************************************************)
JavaPhrase(type) ==
    CASE type = "sequential" -> "unconditional"
      [] type = "loop_back" -> "loop back"
      [] type = "continue" -> "continue"
      [] type = "break_exit" -> "break exit"
      [] type = "method_call" -> "method call"
      [] type = "method_return" -> "method return"
      [] type = "condition_true" -> "match case"
      [] type = "condition_false" -> "not match case"
      [] OTHER -> type

java_edge_descriptions(bs, cs) ==
    LET unique == unique_connections(sorted_connections(cs), {})
        end_block_id == Len(bs)
        isTargetReturn(b) == b.type = "return" /\ b.method = main_function
        returns == SelectSeq(bs, isTargetReturn)
    IN [i \in 1..Len(unique) |->
            Edge(unique[i].from, JavaPhrase(unique[i].type), unique[i].cond, unique[i].to)]
       \o [i \in 1..Len(returns) |-> Edge(returns[i].id, "unconditional", 0, end_block_id)]

java_generate_cfg_text ==
    /\ builder = "JavaCFG"
    /\ status = "building"
    /\ stack = <<>>
    /\ cfg_edges' = java_edge_descriptions(blocks, connections)
    /\ status' = "done"
    /\ UNCHANGED <<hvars, builder, prog, requested, requested_class, hashOrder, main_function, blocks,
                   connections, loop_stack, try_stack, stack, firstGraph, builds>>

(***************************************************************************)
(* Source programs                                                         *)
(***************************************************************************)
\* a comprehension in the value of a return: the first ast.ListComp of the
\* walk (kind "list") or, without one, the first ast.GeneratorExp ("gen");
\* guard says that its first generator has an if; elt_calls are the names
\* called in its element; call_text and return_text are what the expansion
\* writes into the element block and the return block
CompOf(kind, guard, elt_calls, call_text, return_text) ==
    [kind |-> kind, guard |-> guard, elt_calls |-> elt_calls,
     call_text |-> call_text, return_text |-> return_text]

NoComp == CompOf("none", FALSE, {}, 0, 0)

Node(kind, body, orelse, handlers, finalbody, calls, text) ==
    [kind |-> kind, body |-> body, orelse |-> orelse, handlers |-> handlers,
     finalbody |-> finalbody, calls |-> calls, text |-> text, comp |-> NoComp]

ReturnComp(n, calls, comp) == [Node("Return", <<>>, <<>>, <<>>, <<>>, calls, n) EXCEPT !.comp = comp]

\* the text of the statements that always read the same
BreakText == -1
ContinueText == -2
PassText == -3

Simple(kind, calls, text) == Node(kind, <<>>, <<>>, <<>>, <<>>, calls, text)
Assign(n) == Simple("Assign", {}, n)
Return(n) == Simple("Return", {}, n)
Break == Simple("Break", {}, BreakText)
Continue == Simple("Continue", {}, ContinueText)
CallStmt(n, calls) == Simple("Expr", calls, n)
If(n, body, orelse) == Node("If", body, orelse, <<>>, <<>>, {}, n)
While(n, body, orelse) == Node("While", body, orelse, <<>>, <<>>, {}, n)
For(n, body, orelse) == Node("For", body, orelse, <<>>, <<>>, {}, n)
With(n, body) == Node("With", body, <<>>, <<>>, <<>>, {}, n)
Try(n, body, handlers, orelse, finalbody) == Node("Try", body, orelse, handlers, finalbody, {}, n)
ExceptHandler(n, body) == Node("ExceptHandler", body, <<>>, <<>>, <<>>, {}, n)

\* a function definition: its depth in the tree is 1 at the top level of the
\* file and 2 for a method of a top-level class or a definition inside a
\* top-level compound statement
DefAt(name, body, depth) == [name |-> name, body |-> body, depth |-> depth]
Def(name, body) == DefAt(name, body, 1)
Source(funcs, st) == [funcs |-> funcs, st |-> st]

(***************************************************************************)
(* The source files the builds are run on.  ast.parse hands the builder a  *)
(* syntactically valid tree: a compound statement has a body, break and    *)
(* continue stand inside a loop.                                           *)
(***************************************************************************)
MaxStmts == 4

GenKinds == {"Assign", "Return", "Break", "Continue", "If", "While", "For"}
Compound == {"If", "While", "For", "With", "Try"}
Terminal == {"Return", "Break", "Continue", "Raise"}

GenNode(kind, n) ==
    CASE kind = "Assign" -> Assign(n)
      [] kind = "Return" -> Return(n)
      [] kind = "Break" -> Break
      [] kind = "Continue" -> Continue
      [] kind = "If" -> If(n, <<>>, <<>>)
      [] kind = "While" -> While(n, <<>>, <<>>)
      [] kind = "For" -> For(n, <<>>, <<>>)

Slot(parent, slot, inloop) == [parent |-> parent, slot |-> slot, inloop |-> inloop]

\* the places where the next statement of the text can stand: after the last
\* statement of an enclosing suite (nothing follows a jump), in the body the
\* last header still lacks, or in the else suite of an enclosing if
RECURSIVE OpenSlots(_, _, _, _, _)
OpenSlots(st, parent, slot, inloop, suite) ==
    IF suite = <<>> THEN {Slot(parent, slot, inloop)}
    ELSE LET c == suite[Len(suite)]
             k == st[c].kind
             below == inloop \/ k \in Loops
             pending == st[Len(st)].kind \in Compound
         IN (IF pending \/ k \in Terminal THEN {} ELSE {Slot(parent, slot, inloop)})
            \cup (IF k \notin Compound THEN {}
                  ELSE IF st[c].orelse # <<>>
                  THEN OpenSlots(st, c, "orelse", inloop, st[c].orelse)
                  ELSE OpenSlots(st, c, "body", below, st[c].body)
                       \cup (IF k = "If" /\ ~pending THEN {Slot(c, "orelse", inloop)} ELSE {}))

AddStmt(p, s, kind) ==
    LET n == Len(p.st) + 1
        st1 == IF s.parent = NoNode THEN p.st
               ELSE IF s.slot = "body"
               THEN [p.st EXCEPT ![s.parent].body = Append(@, n)]
               ELSE [p.st EXCEPT ![s.parent].orelse = Append(@, n)]
    IN [top |-> IF s.parent = NoNode THEN Append(p.top, n) ELSE p.top,
        st |-> Append(st1, GenNode(kind, n))]

Extend(p) ==
    {AddStmt(p, s, kind) : s \in OpenSlots(p.st, NoNode, "body", FALSE, p.top),
                           kind \in GenKinds}
    \ {AddStmt(p, s, kind) : s \in {t \in OpenSlots(p.st, NoNode, "body", FALSE, p.top) :
                                       ~t.inloop},
                             kind \in {"Break", "Continue"}}

\* the texts of n statements, complete or still lacking the last body
RECURSIVE Texts(_)
Texts(n) ==
    IF n = 0 THEN {[top |-> <<>>, st |-> <<>>]}
    ELSE UNION {Extend(p) : p \in Texts(n - 1)}

Generated ==
    {Source(<<Def("f", p.top)>>, p.st) :
        p \in {q \in UNION {Texts(n) : n \in 1..MaxStmts} :
                  q.st[Len(q.st)].kind \notin Compound}}

(***************************************************************************)
(* Source texts written as trees; Flatten numbers the statements in the    *)
(* order of the text.  A text of 0 stands for "reads like no other line".  *)
(***************************************************************************)
Tree(kind, body, orelse, handlers, finalbody, calls, text) ==
    [kind |-> kind, body |-> body, orelse |-> orelse, handlers |-> handlers,
     finalbody |-> finalbody, calls |-> calls, text |-> text, comp |-> NoComp]

tReturnComp(kind, guard, calls, elt_calls) ==
    [Tree("Return", <<>>, <<>>, <<>>, <<>>, calls, 0)
        EXCEPT !.comp = CompOf(kind, guard, elt_calls, 0, 0)]

tSimple(kind) == Tree(kind, <<>>, <<>>, <<>>, <<>>, {}, 0)
tAssign == tSimple("Assign")
tReturn == tSimple("Return")
tBreak == Tree("Break", <<>>, <<>>, <<>>, <<>>, {}, BreakText)
tContinue == Tree("Continue", <<>>, <<>>, <<>>, <<>>, {}, ContinueText)
tCall(kind, calls) == Tree(kind, <<>>, <<>>, <<>>, <<>>, calls, 0)
tLoop(kind, body) == Tree(kind, body, <<>>, <<>>, <<>>, {}, 0)
tIf(body, orelse) == Tree("If", body, orelse, <<>>, <<>>, {}, 0)
tWith(body) == Tree("With", body, <<>>, <<>>, <<>>, {}, 0)
\* class K: body, a statement kind the builder has no case for; the calls are
\* those of the whole statement
tClassDef(body, calls) == Tree("ClassDef", body, <<>>, <<>>, <<>>, calls, 0)
tHandler(body) == Tree("ExceptHandler", body, <<>>, <<>>, <<>>, {}, 0)
tTry(body, handlers, orelse, finalbody) == Tree("Try", body, orelse, handlers, finalbody, {}, 0)

RECURSIVE FlattenSuite(_, _)
FlattenSuite(trees, st) ==
    IF trees = <<>> THEN [ids |-> <<>>, st |-> st]
    ELSE LET t == Head(trees)
             n == Len(st) + 1
             body == FlattenSuite(t.body, Append(st, t))
             handlers == FlattenSuite(t.handlers, body.st)
             orelse == FlattenSuite(t.orelse, handlers.st)
             finalbody == FlattenSuite(t.finalbody, orelse.st)
             comp == IF t.comp.kind = "none" THEN NoComp
                     ELSE CompOf(t.comp.kind, t.comp.guard, t.comp.elt_calls,
                                 IF t.comp.call_text = 0 THEN SynthText(n, 3)
                                 ELSE t.comp.call_text,
                                 IF t.comp.return_text = 0 THEN SynthText(n, 4)
                                 ELSE t.comp.return_text)
             node == [Node(t.kind, body.ids, orelse.ids, handlers.ids, finalbody.ids, t.calls,
                           IF t.text = 0 THEN n ELSE t.text) EXCEPT !.comp = comp]
             rest == FlattenSuite(Tail(trees), [finalbody.st EXCEPT ![n] = node])
         IN [ids |-> <<n>> \o rest.ids, st |-> rest.st]

\* the file made of the function definitions defs = <<[name, body], ...>>
RECURSIVE FlattenDefs(_, _)
FlattenDefs(defs, src) ==
    IF defs = <<>> THEN src
    ELSE LET body == FlattenSuite(Head(defs).body, src.st)
         IN FlattenDefs(Tail(defs),
                        Source(Append(src.funcs, DefAt(Head(defs).name, body.ids, Head(defs).depth)),
                               body.st))

File(defs) == FlattenDefs(defs, Source(<<>>, <<>>))
OneFunction(body) == File(<<Def("f", body)>>)

(***************************************************************************)
(* Scenario families                                                       *)
(***************************************************************************)
MaxPre == 1
MaxHandlers == 2
MaxFuncs == 2

Assigns(n) == [i \in 1..n |-> tAssign]

\* Scenario A of the specification: if/else with a return in each arm
ScenarioA == OneFunction(<<tIf(<<tReturn>>, <<tReturn>>)>>)

\* a suite standing at the top of the function or inside another statement
Wrap(ctx, suite) ==
    CASE ctx = "top" -> suite
      [] ctx = "if" -> <<tIf(suite, <<>>)>>
      [] ctx = "else" -> <<tIf(<<tAssign>>, suite)>>
      [] ctx = "while" -> <<tLoop("While", suite)>>
      [] ctx = "for" -> <<tLoop("For", suite)>>
      [] ctx = "with" -> <<tWith(suite)>>
      [] ctx = "try" -> <<tTry(suite, <<tHandler(<<tAssign>>)>>, <<>>, <<>>)>>

Contexts == {"top", "if", "else", "while", "for", "with", "try"}

\* Scenario B of the specification: a loop whose body is an if ending in
\* break and a sibling statement, followed by a statement after the loop
BreakLoops ==
    {OneFunction(Wrap(ctx, <<tLoop(loop, <<tIf(Assigns(pre) \o <<tBreak>>, <<>>), tSimple(s)>>),
                             after>>)) :
        ctx \in Contexts, loop \in Loops, pre \in 0..MaxPre,
        s \in {"Assign", "AugAssign", "Expr"},
        after \in {tAssign, tReturn, tIf(<<tAssign>>, <<>>), tLoop("While", <<tAssign>>)}}

TryBodies ==
    {<<tAssign>>, <<tAssign, tAssign>>, <<tAssign, tReturn>>,
     <<tLoop("While", <<tAssign, tAssign>>)>>, <<tIf(<<tAssign>>, <<tAssign>>)>>,
     <<tLoop("While", <<tAssign>>), tAssign>>}

\* Scenario C of the specification and its variants: a try statement has a
\* handler or a finally suite, and an else suite only after a handler
TryShapes ==
    {sh \in [body : TryBodies, nh : 0..MaxHandlers, els : BOOLEAN, fin : BOOLEAN,
             tail : {<<>>, <<tReturn>>}] :
        (sh.nh > 0 \/ sh.fin) /\ (sh.els => sh.nh > 0)}

TryTexts ==
    {OneFunction(<<tTry(sh.body, [h \in 1..sh.nh |-> tHandler(<<tAssign>>)],
                        IF sh.els THEN <<tAssign>> ELSE <<>>,
                        IF sh.fin THEN <<tAssign>> ELSE <<>>)>> \o sh.tail) : sh \in TryShapes}

OtherTexts ==
    {OneFunction(<<tIf(<<tTry(<<tAssign>>, <<>>, <<>>, <<tAssign>>)>>, <<>>), tReturn>>),
     OneFunction(<<tWith(<<tAssign, tAssign>>), tReturn>>),
     OneFunction(<<tLoop("For", <<tWith(<<tIf(<<tContinue>>, <<>>), tAssign>>)>>), tReturn>>),
     OneFunction(<<tLoop("For", <<tIf(<<tAssign>>, <<>>)>>), tAssign, tReturn>>)}

\* Scenario D of the specification and its variants: a return whose value
\* holds a list comprehension or a generator expression, with or without a
\* guard; its element calls g and its guard calls h, which the file defines
\* or not
CompTexts ==
    {File(<<Def("f", Wrap(ctx, Assigns(pre) \o <<tReturnComp(kind, guard, {"g", "h"}, {"g"})>>)
                     \o tail)>> \o defs) :
        ctx \in Contexts, pre \in 0..MaxPre, kind \in {"list", "gen"}, guard \in BOOLEAN,
        tail \in {<<>>, <<tReturn>>},
        defs \in {<<>>, <<Def("g", <<tReturn>>), Def("h", <<tReturn>>)>>}}
    \cup {File(<<Def("f", <<tReturnComp(kind, TRUE, {"f"}, {"f"})>>)>>) : kind \in {"list", "gen"}}

FNames == <<"f", "g", "h", "k">>

\* the body of a function that calls the functions numbered callees
CallBody(callees) ==
    LET called(j) == j \in callees
        order == SelectSeq([j \in 1..Len(FNames) |-> j], called)
    IN [c \in 1..Len(order) |-> tCall("Expr", {FNames[order[c]]})] \o <<tReturn>>

\* every call graph over at most MaxFuncs functions
CallGraphs ==
    UNION {{File([i \in 1..n |-> Def(FNames[i], CallBody(adj[i]))]) :
              adj \in [1..n -> SUBSET (1..n)]} : n \in 1..MaxFuncs}

CallTexts ==
    {File(<<Def("f", CallBody({2, 3})), Def("g", <<tAssign>>), Def("h", <<tAssign, tAssign>>)>>),
     File(<<Def("f", <<tCall("Assign", {"g", "h"}), tReturn>>), Def("g", <<tReturn>>),
            Def("h", <<tReturn>>)>>),
     File(<<Def("f", CallBody({2, 3})), Def("g", CallBody({3})), Def("h", CallBody({}))>>),
     File(<<Def("f", CallBody({2})), Def("g", CallBody({3})), Def("h", CallBody({1}))>>),
     File(<<Def("f", <<tIf(<<tCall("Return", {"f"})>>, <<>>), tCall("Return", {"g"})>>),
            Def("g", <<tLoop("While", <<tCall("Expr", {"f"})>>), tReturn>>)>>),
     File(<<Def("f", <<tIf(<<tReturn>>, <<tCall("Return", {"g"})>>)>>), Def("g", <<tReturn>>)>>),
     File(<<>>)}

\* files whose first definition is a method of a class or stands inside a
\* compound statement, with a top-level function declared after it
DeclTexts ==
    {File(<<DefAt("g", first, 2), Def("f", <<tAssign, tReturn>>)>> \o more) :
        first \in {<<tReturn>>, <<tAssign, tReturn>>},
        more \in {<<>>, <<DefAt("h", <<tReturn>>, 2)>>, <<Def("h", <<tReturn>>)>>}}

\* a class definition, which _process_single_statement has no case for, in
\* every context, alone or followed by statements, its body calling a function
\* of the file or none; and one in the finally body of a try nested in an if
UnknownTexts ==
    {File(<<Def("f", Wrap(ctx, Assigns(pre) \o <<tClassDef(<<tCall("Assign", calls)>>, calls)>>
                               \o after) \o tail)>> \o defs) :
        ctx \in Contexts, pre \in 0..MaxPre, calls \in {{}, {"g"}},
        after \in {<<>>, <<tAssign>>}, tail \in {<<>>, <<tReturn>>},
        defs \in {<<>>, <<Def("g", <<tReturn>>)>>}}
    \cup {File(<<Def("f", <<tIf(<<tTry(<<tAssign>>, <<>>, <<>>,
                                       Assigns(pre) \o <<tClassDef(<<tAssign>>, {})>>)>>, <<>>),
                            tReturn>>)>>) : pre \in 0..MaxPre}

\* an if without else followed by a sibling statement, in a suite nested two
\* deep in every pair of contexts
NestedIfTexts ==
    {OneFunction(Wrap(outer, Wrap(inner, <<tIf(<<tAssign>>, <<>>), sibling>>)) \o tail) :
        outer \in Contexts, inner \in Contexts,
        sibling \in {tAssign, tReturn, tTry(<<tAssign>>, <<>>, <<>>, <<tAssign>>)},
        tail \in {<<>>, <<tReturn>>}}

\* loops whose body ends in a raise, alone or in an arm of an if
RaiseTexts ==
    {OneFunction(<<tLoop(loop, Assigns(pre) \o <<last>>)>> \o tail) :
        loop \in Loops, pre \in 0..MaxPre,
        last \in {tSimple("Raise"), tIf(<<tSimple("Raise")>>, <<>>),
                  tIf(<<tAssign>>, <<tSimple("Raise")>>)},
        tail \in {<<>>, <<tReturn>>}}

\* a loop with an else clause that ends in a continue or a break, alone or
\* in the body of an outer loop
tLoopElse(kind, body, orelse) == Tree(kind, body, orelse, <<>>, <<>>, {}, 0)

LoopElseTexts ==
    {OneFunction(<<tLoop(outer, <<tLoopElse(inner, <<tAssign>>, Assigns(pre) \o <<jump>>)>>
                                \o after)>> \o tail) :
        outer \in Loops, inner \in Loops, pre \in 0..MaxPre, jump \in {tContinue, tBreak},
        after \in {<<>>, <<tAssign>>}, tail \in {<<>>, <<tReturn>>}}

Missing == "absent"

NamesOf(src) == {src.funcs[i].name : i \in 1..Len(src.funcs)}

(***************************************************************************)
(* Java sources: a method body written as a tree is laid out one statement *)
(* per line, the opening brace at the end of the header line and the       *)
(* closing brace (or "} else {") on a line of its own, which is what       *)
(* _extract_statements_from_body makes of either brace style.              *)
(***************************************************************************)
JavaMethod(name, class, body) == [name |-> name, class |-> class, body |-> body]
JavaSource(classes, funcs) == [classes |-> classes, funcs |-> funcs]

jSimple(kind, calls) == Tree(kind, <<>>, <<>>, <<>>, <<>>, calls, 0)
jStmt == jSimple("other", {})
jReturn == jSimple("return", {})
jBreak == jSimple("break", {})
jContinue == jSimple("continue", {})
jCall(calls) == jSimple("other", calls)
jIf(body, orelse) == Tree("if", body, orelse, <<>>, <<>>, {}, 0)
jLoop(kind, body) == Tree(kind, body, <<>>, <<>>, <<>>, {}, 0)

\* the statements of a suite; the first one is statement number n of the method
RECURSIVE JavaLines(_, _)
JavaLines(trees, n) ==
    IF trees = <<>> THEN <<>>
    ELSE LET t == Head(trees)
             body == JavaLines(t.body, n + 1)
             orelse == JavaLines(t.orelse, n + Len(body) + 2)
             text == IF t.kind \notin {"if", "while", "for"}
                     THEN <<JavaStmt(t.kind, 0, 0, t.calls, n)>>
                     ELSE <<JavaStmt(t.kind, 1, 0, t.calls, n)>> \o body
                          \o (IF t.orelse # <<>>
                              THEN <<JavaStmt("else", 1, 1, {}, n + Len(body) + 1)>> \o orelse
                              ELSE <<>>)
                          \o <<JavaStmt("}", 0, 1, {}, n + Len(body) + Len(orelse) + 2)>>
         IN text \o JavaLines(Tail(trees), n + Len(text))

JavaClass(methods) ==
    JavaSource(<<"A">>, [i \in 1..Len(methods) |->
                            JavaMethod(methods[i].name, "A", JavaLines(methods[i].body, 1))])

OneMethod(body) == JavaClass(<<Def("f", body)>>)

JavaStmts(n) == [i \in 1..n |-> jStmt]

\* loops whose body holds plain statements, an if or a jump, alone or
\* followed by more statements of the method
JavaLoopTexts ==
    {OneMethod(<<jLoop(loop, body)>> \o tail) :
        loop \in {"while", "for"},
        body \in {JavaStmts(n) : n \in 0..(MaxPre + 1)}
                 \cup {<<jIf(<<jBreak>>, <<>>), jStmt>>, <<jStmt, jIf(<<jStmt>>, <<>>)>>,
                       <<jIf(<<jContinue>>, <<jStmt>>)>>, <<jLoop("while", <<jStmt, jStmt>>)>>},
        tail \in {<<>>, <<jStmt>>, <<jStmt, jReturn>>}}
    \cup {OneMethod(<<jIf(then, orelse), jReturn>>) :
            then \in {<<jStmt>>, <<jStmt, jStmt>>, <<jReturn>>},
            orelse \in {<<>>, <<jStmt>>, <<jReturn>>}}

\* a loop whose body ends in an else-less if, alone or inside another loop
JavaLastIfTexts ==
    {OneMethod(outer \o tail) :
        outer \in UNION {{<<jLoop("while", inner \o rest)>> :
                            rest \in {<<>>, <<jStmt>>}} \cup {inner} :
                         inner \in {<<jLoop(loop, pre \o <<jIf(<<jStmt>>, <<>>)>>)>> :
                                       loop \in {"while", "for"},
                                       pre \in {<<>>, <<jStmt>>}}},
        tail \in {<<>>, <<jReturn>>}}

\* the body of a method that calls the methods numbered callees
JavaCallBody(callees) ==
    LET called(j) == j \in callees
        order == SelectSeq([j \in 1..Len(FNames) |-> j], called)
    IN [c \in 1..Len(order) |-> jCall({FNames[order[c]]})] \o <<jReturn>>

\* every call graph over at most MaxFuncs methods of one class
JavaCallGraphs ==
    UNION {{JavaClass([i \in 1..n |-> Def(FNames[i], JavaCallBody(adj[i]))]) :
              adj \in [1..n -> SUBSET (1..n)]} : n \in 1..MaxFuncs}

\* two classes, a class without methods, a file without classes
JavaCallTexts ==
    {JavaSource(<<"A", "B">>,
                <<JavaMethod("f", "A", JavaLines(JavaCallBody({2}), 1)),
                  JavaMethod("g", "B", JavaLines(JavaCallBody({1, 3}), 1)),
                  JavaMethod("h", "B", JavaLines(<<jCall({"f", "g"}), jStmt>>, 1))>>),
     JavaSource(<<"A">>, <<>>),
     JavaSource(<<>>, <<>>)}

JavaClassesOf(src) == {src.classes[i] : i \in 1..Len(src.classes)}

JavaInputs ==
    {[builder |-> "JavaCFG", prog |-> p, requested |-> "f", requested_class |-> NoName] :
        p \in JavaLoopTexts \cup JavaCallGraphs \cup JavaLastIfTexts}
    \cup UNION {{[builder |-> "JavaCFG", prog |-> p, requested |-> r, requested_class |-> c] :
                    r \in NamesOf(p) \cup {NoName, Missing},
                    c \in JavaClassesOf(p) \cup {NoName, Missing}} : p \in JavaCallTexts}

TextInputs ==
    {[builder |-> "TextCFG", prog |-> p, requested |-> "f", requested_class |-> NoName] :
        p \in Generated \cup BreakLoops \cup TryTexts \cup OtherTexts \cup CallGraphs
              \cup CompTexts \cup UnknownTexts \cup NestedIfTexts
              \cup RaiseTexts \cup LoopElseTexts}
    \cup UNION {{[builder |-> "TextCFG", prog |-> p, requested |-> r,
                   requested_class |-> NoName] : r \in NamesOf(p) \cup {NoName, Missing}} :
                  p \in CallTexts \cup DeclTexts}

(***************************************************************************)
(* The builds                                                              *)
(***************************************************************************)
Perms(S) == {p \in [1..Cardinality(S) -> S] : \A i, j \in DOMAIN p : i # j => p[i] # p[j]}

NoGraph == <<>>

(***************************************************************************)
(* self_debug_serial.py: DebugResults                                      *)
(***************************************************************************)
\* the Python value None of an optional argument
None == "None"

\* DebugResults.__init__
DebugResults ==
    [total_processed |-> 0, successful_fixes |-> 0, test_passed |-> 0, test_failed |-> 0,
     debug_errors |-> 0, cfg_errors |-> 0, timeout_errors |-> 0, results_details |-> <<>>]

Count(cond) == IF cond THEN 1 ELSE 0

\* total_processed is left as it is
add_result_without_total(self, task_id, success, test_passed, error_type) ==
    [self EXCEPT !.results_details =
                     Append(@, [task_id |-> task_id, success |-> success,
                                test_passed |-> test_passed, error_type |-> error_type])]

\* DebugResults.add_result; test_passed is "True", "False" or None
add_result(self, task_id, success, test_passed, error_type) ==
    [total_processed |-> self.total_processed + 1,
     successful_fixes |-> self.successful_fixes + Count(success),
     test_passed |-> self.test_passed + Count(test_passed = "True"),
     test_failed |-> self.test_failed + Count(test_passed = "False"),
     debug_errors |-> self.debug_errors + Count(error_type = "debug_error"),
     cfg_errors |-> self.cfg_errors + Count(error_type = "cfg_error"),
     timeout_errors |-> self.timeout_errors + Count(error_type = "timeout_error"),
     results_details |-> Append(self.results_details,
                                [task_id |-> task_id, success |-> success,
                                 test_passed |-> test_passed, error_type |-> error_type])]

\* the values of the error_type argument
ErrorTypes ==
    {None, "debug_error", "cfg_error", "timeout_error", "shutdown", "test_error",
     "unexpected_error"}

(***************************************************************************)
(* self_debug_serial.py: main and process_single_task.  serial.pc names    *)
(* the call the program is in: "main" (the head of the for loop),          *)
(* "process_single_task" (called, before its first check), "TextCFG",      *)
(* "chat_selfdebug", "sleep" (between two attempts), "run_check_function"  *)
(* and "summary" (behind the loop).  The signal handler runs between any   *)
(* two of these steps, that is while one of the calls is under way.        *)
(***************************************************************************)
max_retries == 2

NoTask == [pc |-> "idle", tasks |-> 0, i |-> 0, attempt |-> 0]

\* process_single_task returns and main adds the result
ReturnFromTask(success, test_passed, error_type) ==
    /\ debug_results' = add_result(debug_results, serial.i, success, test_passed, error_type)
    /\ serial' = [serial EXCEPT !.pc = "main", !.i = serial.i + 1, !.attempt = 0]

GoOn(pc) ==
    /\ serial' = [serial EXCEPT !.pc = pc]
    /\ UNCHANGED debug_results

\* the head of the for loop of main: the check of shutdown_event, the call
main_loop ==
    /\ serial.pc = "main"
    /\ IF serial.i >= serial.tasks \/ shutdown_event
       THEN GoOn("summary")
       ELSE GoOn("process_single_task")
    /\ UNCHANGED <<shutdown_event, d4j, cfgvars>>

\* the first check of process_single_task, the fields of the task, the call
\* of TextCFG
process_single_task_start ==
    /\ serial.pc = "process_single_task"
    /\ \/ shutdown_event /\ ReturnFromTask(FALSE, None, "shutdown")
       \/ ~shutdown_event /\ ReturnFromTask(FALSE, None, "unexpected_error")
       \/ ~shutdown_event /\ GoOn("TextCFG")
    /\ UNCHANGED <<shutdown_event, d4j, cfgvars>>

\* TextCFG returns or raises; the second check, the two checks of the time
\* spent, the first call of chat_selfdebug
process_single_task_cfg ==
    /\ serial.pc = "TextCFG"
    /\ \/ ReturnFromTask(FALSE, None, "cfg_error")
       \/ shutdown_event /\ ReturnFromTask(FALSE, None, "shutdown")
       \/ ~shutdown_event /\ ReturnFromTask(FALSE, None, "timeout_error")
       \/ ~shutdown_event /\ GoOn("chat_selfdebug")
    /\ UNCHANGED <<shutdown_event, d4j, cfgvars>>

\* chat_selfdebug raises: the last attempt returns debug_error, an earlier
\* one goes to sleep; or it returns: the answer is parsed, the third check,
\* the check of the time spent, the call of run_check_function
process_single_task_debug ==
    /\ serial.pc = "chat_selfdebug"
    /\ \/ serial.attempt = max_retries - 1 /\ ReturnFromTask(FALSE, None, "debug_error")
       \/ serial.attempt < max_retries - 1 /\ GoOn("sleep")
       \/ ReturnFromTask(FALSE, None, "debug_error")
       \/ shutdown_event /\ ReturnFromTask(FALSE, None, "shutdown")
       \/ ~shutdown_event /\ ReturnFromTask(TRUE, None, "timeout_error")
       \/ ~shutdown_event /\ GoOn("run_check_function")
    /\ UNCHANGED <<shutdown_event, d4j, cfgvars>>

\* time.sleep(2) returns: the next attempt of the for loop over the attempts
process_single_task_retry ==
    /\ serial.pc = "sleep"
    /\ \/ ReturnFromTask(FALSE, None, "timeout_error")
       \/ /\ serial' = [serial EXCEPT !.pc = "chat_selfdebug", !.attempt = serial.attempt + 1]
          /\ UNCHANGED debug_results
    /\ UNCHANGED <<shutdown_event, d4j, cfgvars>>

\* run_check_function returns True or False, or raises
process_single_task_test ==
    /\ serial.pc = "run_check_function"
    /\ \/ ReturnFromTask(TRUE, "True", None)
       \/ ReturnFromTask(TRUE, "False", None)
       \/ ReturnFromTask(TRUE, None, "test_error")
    /\ UNCHANGED <<shutdown_event, d4j, cfgvars>>

\* signal_handler, on SIGINT or SIGTERM
signal_handler ==
    /\ serial.pc \notin {"idle", "summary"}
    /\ shutdown_event' = TRUE
    /\ UNCHANGED <<debug_results, serial, d4j, cfgvars>>

(***************************************************************************)
(* self_debug_multi_defects4j.py.  A text is a sequence of characters:     *)
(* "b" and "f" stand for the code of a method, "c" for a comment.          *)
(***************************************************************************)
Blank == {" ", "\n"}

RECURSIVE lstrip(_)
lstrip(s) == IF s # <<>> /\ Head(s) \in Blank THEN lstrip(Tail(s)) ELSE s

\* str.strip
strip(s) == Reverse(lstrip(Reverse(lstrip(s))))

\* extract_java_buggy_code
extract_java_buggy_code(bug_data) ==
    IF bug_data.buggy_code_comment # <<>>
    THEN bug_data.buggy_code_comment \o <<"\n">> \o bug_data.buggy
    ELSE bug_data.buggy

NoCode == [kind |-> "None", code |-> <<>>]
Code(text) == [kind |-> "code", code |-> text]
Raised == [kind |-> "raised", code |-> <<>>]

\* selfdebug_java_single on the answer of chat_java_fragment_debug: "raise"
\* (the call raises), "json" with the text of corrected_code (or without
\* that key), "text" (not JSON) with a ```java block or without one
selfdebug_java_single(bug_data, answer) ==
    LET buggy_code == extract_java_buggy_code(bug_data)
    IN CASE answer.kind = "raise" -> NoCode
         [] answer.kind = "json" ->
              LET corrected_code == IF answer.has_code THEN answer.code ELSE buggy_code
              IN IF corrected_code # <<>> /\ strip(corrected_code) # strip(buggy_code)
                 THEN Code(corrected_code)
                 ELSE NoCode
         [] answer.kind = "text" ->
              LET extracted_code == strip(answer.code)
              IN IF answer.has_code /\ extracted_code # <<>>
                    /\ extracted_code # strip(buggy_code)
                 THEN Code(extracted_code)
                 ELSE NoCode

\* the except branch of process_defects4j_dataset records no patch
result_entry_without_patch_on_error(bug_data, corrected_code) ==
    IF corrected_code.kind = "raised"
    THEN [patches |-> <<>>, original_buggy |-> bug_data.buggy]
    ELSE IF corrected_code.kind = "code" /\ corrected_code.code # bug_data.buggy
         THEN [patches |-> <<corrected_code.code>>, original_buggy |-> bug_data.buggy]
         ELSE [patches |-> <<bug_data.buggy>>, original_buggy |-> bug_data.buggy]

\* the entry process_defects4j_dataset stores for a bug: in the try block
\* the patch or the buggy code, in the except branch the buggy code
result_entry(bug_data, corrected_code) ==
    IF corrected_code.kind = "raised"
    THEN [patches |-> <<bug_data.buggy>>, original_buggy |-> bug_data.buggy]
    ELSE IF corrected_code.kind = "code" /\ corrected_code.code # <<>>
            /\ corrected_code.code # bug_data.buggy
         THEN [patches |-> <<corrected_code.code>>, original_buggy |-> bug_data.buggy]
         ELSE [patches |-> <<bug_data.buggy>>, original_buggy |-> bug_data.buggy]

NoDataset ==
    [dataset |-> <<>>, bug_names |-> <<>>, i |-> 0, results |-> <<>>, returned |-> <<>>,
     patches_generated |-> 0]

AnswerTexts == {<<"f">>, <<"b">>, <<"b", " ">>, <<"c", "\n", "b">>, <<" ">>, <<>>}

Answers ==
    {[kind |-> "raise", has_code |-> FALSE, code |-> <<>>]}
    \cup {[kind |-> k, has_code |-> TRUE, code |-> t] : k \in {"json", "text"}, t \in AnswerTexts}
    \cup {[kind |-> k, has_code |-> FALSE, code |-> <<>>] : k \in {"json", "text"}}

\* one turn of the for loop of process_defects4j_dataset: bug number i + 1 of
\* bug_names; selfdebug_java_single returns or raises; d4j.returned keeps
\* what it returned
process_defects4j_dataset ==
    /\ d4j.i < Len(d4j.bug_names)
    /\ \E corrected_code \in {Raised} \cup
                             {selfdebug_java_single(d4j.dataset[d4j.bug_names[d4j.i + 1]], a) :
                                 a \in Answers} :
          LET bug_name == d4j.bug_names[d4j.i + 1]
              bug_data == d4j.dataset[bug_name]
              entry == result_entry(bug_data, corrected_code)
          IN d4j' = [d4j EXCEPT !.i = d4j.i + 1,
                                !.results = (bug_name :> entry) @@ d4j.results,
                                !.returned = Append(d4j.returned, corrected_code),
                                !.patches_generated =
                                    @ + Count(/\ corrected_code.kind = "code"
                                              /\ corrected_code.code # bug_data.buggy)]
    /\ UNCHANGED <<debug_results, shutdown_event, serial, cfgvars>>

(***************************************************************************)
(* The harnesses on their own                                              *)
(***************************************************************************)
\* no harness is running
Idle ==
    /\ debug_results = DebugResults
    /\ shutdown_event = FALSE
    /\ serial = NoTask
    /\ d4j = NoDataset

\* nothing has been constructed yet
Fresh ==
    /\ status = "new"
    /\ main_function = NoName
    /\ blocks = <<>>
    /\ connections = <<>>
    /\ loop_stack = <<>>
    /\ try_stack = <<>>
    /\ stack = <<>>
    /\ cfg_edges = <<>>

Init ==
    /\ \E in \in TextInputs \cup JavaInputs : /\ builder = in.builder
                          /\ prog = in.prog
                          /\ requested = in.requested
                          /\ requested_class = in.requested_class
    /\ hashOrder \in Perms(FuncNames)
    /\ Fresh
    /\ firstGraph = NoGraph
    /\ builds = 1
    /\ Idle

\* a second TextCFG(source_path, main_function) on the same file, in a
\* process whose sets of names may iterate in another order
Rebuild ==
    /\ status = "done"
    /\ builds = 1
    /\ firstGraph' = [blocks |-> blocks, connections |-> connections, cfg_edges |-> cfg_edges]
    /\ builds' = 2
    /\ hashOrder' \in Perms(FuncNames)
    /\ status' = "new"
    /\ main_function' = NoName
    /\ blocks' = <<>>
    /\ connections' = <<>>
    /\ loop_stack' = <<>>
    /\ try_stack' = <<>>
    /\ stack' = <<>>
    /\ cfg_edges' = <<>>
    /\ UNCHANGED <<hvars, builder, prog, requested, requested_class>>

Next ==
    \/ TextCFG_init
    \/ build_function_cfg
    \/ process_simple_statement
    \/ process_return_comprehension
    \/ process_unknown_statement
    \/ process_for_loop
    \/ process_while_loop
    \/ process_if_statement
    \/ process_with_statement
    \/ process_try_statement
    \/ process_next_suite
    \/ finish_compound
    \/ finish_statements
    \/ process_function_calls_in_blocks
    \/ expand_callee
    \/ finish_function
    \/ generate_cfg_text
    \/ JavaCFG_init
    \/ build_method_cfg
    \/ process_method_calls_in_blocks
    \/ expand_method
    \/ finish_method
    \/ java_if_condition_false_pass
    \/ java_loop_condition_false_pass
    \/ java_loop_back_pass
    \/ java_break_exit_pass
    \/ java_method_call_pass
    \/ java_remove_conflicting_pass
    \/ java_generate_cfg_text
    \/ Rebuild

Spec == Init /\ [][Next]_vars

(***************************************************************************)
(* The specifications of the harnesses                                     *)
(***************************************************************************)
MaxCalls == 2
MaxTasks == 2
MaxBugs == 2

\* no builder is running
NoBuild ==
    /\ builder = "none"
    /\ prog = <<>>
    /\ requested = NoName
    /\ requested_class = NoName
    /\ hashOrder = <<>>
    /\ Fresh
    /\ firstGraph = NoGraph
    /\ builds = 0

\* any call of DebugResults.add_result on one object
call_add_result ==
    /\ debug_results.total_processed < MaxCalls
    /\ \E success \in BOOLEAN, test_passed \in {"True", "False", None}, error_type \in ErrorTypes :
          debug_results' = add_result(debug_results, "task", success, test_passed, error_type)
    /\ UNCHANGED <<shutdown_event, serial, d4j, cfgvars>>

InitResults == NoBuild /\ Idle

SpecResults == InitResults /\ [][call_add_result]_vars

\* main of self_debug_serial.py after load_dataset returned the tasks
InitSerial ==
    /\ NoBuild
    /\ debug_results = DebugResults
    /\ shutdown_event = FALSE
    /\ \E n \in 1..MaxTasks : serial = [pc |-> "main", tasks |-> n, i |-> 0, attempt |-> 0]
    /\ d4j = NoDataset

NextSerial ==
    \/ main_loop
    \/ process_single_task_start
    \/ process_single_task_cfg
    \/ process_single_task_debug
    \/ process_single_task_retry
    \/ process_single_task_test
    \/ signal_handler

SpecSerial == InitSerial /\ [][NextSerial]_vars

\* the entries of defects4j-sf.json; the keys of the file are the numbers
BugData == [buggy : {<<"b">>, <<"b", " ">>}, buggy_code_comment : {<<>>, <<"c">>}]

Datasets == UNION {[1..n -> BugData] : n \in 1..MaxBugs}

\* bug_names[:limit] when limit is given and positive (0: no limit)
bug_names_of(dataset, limit) ==
    IF limit > 0 THEN [k \in 1..(IF limit < Len(dataset) THEN limit ELSE Len(dataset)) |-> k]
    ELSE [k \in 1..Len(dataset) |-> k]

InitD4J ==
    /\ NoBuild
    /\ debug_results = DebugResults
    /\ shutdown_event = FALSE
    /\ serial = NoTask
    /\ \E dataset \in Datasets, limit \in 0..MaxBugs :
          d4j = [NoDataset EXCEPT !.dataset = dataset, !.bug_names = bug_names_of(dataset, limit)]

SpecD4J == InitD4J /\ [][process_defects4j_dataset]_vars

(***************************************************************************)
(* Properties                                                              *)
(***************************************************************************)
Done == status = "done"

FallThroughTypes == {"sequential", "condition_false", "for_not_match", "loop_back"}

\* the stored connections that leave block id with a fall-through label
FallThroughEdges(id) ==
    {i \in 1..Len(connections) :
        connections[i].from = id /\ connections[i].type \in FallThroughTypes}

\* C1: in every finished graph each block that is not a return, break,
\* continue or raise has exactly one outgoing fall-through edge (sequential,
\* condition_false, for_not_match or loop_back), never zero, never two.
C1_ExactlyOneFallThrough ==
    (builder = "TextCFG" /\ Done) => \A i \in 1..Len(blocks) :
                blocks[i].type \notin TerminalTypes
                => Cardinality(FallThroughEdges(blocks[i].id)) = 1

\* the stored connections of a given label that leave block id
EdgesFrom(id, type) ==
    {i \in 1..Len(connections) : connections[i].from = id /\ connections[i].type = type}

\* C2: at every point of a build, of TextCFG and of JavaCFG alike, the
\* stored connection list holds no two entries with the same (from, to, type)
\* triple, whatever additions and removals of edges came before.
C2_NoDuplicateConnections ==
    \A i, j \in 1..Len(connections) :
        (/\ connections[i].from = connections[j].from
         /\ connections[i].to = connections[j].to
         /\ connections[i].type = connections[j].type
         /\ connections[i].cond = connections[j].cond) => i = j

\* a JavaCFG build past all its passes: a loop whose body block was given a
\* loop_back edge and lost the sequential edge to the statement after the
\* loop, which _connect_sequential_blocks had stored before
C2_Witness ==
    /\ builder = "JavaCFG"
    /\ Done
    /\ \E h, a, b \in 1..Len(blocks) :
          /\ blocks[h].type \in JavaLoopTypes
          /\ blocks[h].body_blocks = <<blocks[a].id>>
          /\ blocks[a].type = "expression"
          /\ blocks[b].id = blocks[a].id + 1
          /\ blocks[b].type = "expression"
          /\ EdgesFrom(blocks[a].id, "loop_back") # {}
          /\ EdgesFrom(blocks[a].id, "sequential") = {}
          /\ \E i \in 1..Len(connections) :
                /\ connections[i].from = blocks[h].id
                /\ connections[i].to = blocks[b].id
                /\ connections[i].type = "condition_false"

\* the build has ended: with a graph, with the error of __init__, or with an
\* exception raised out of the builder
Stopped == status \in {"done", "error", "crashed"}

\* C3: whatever the call graph of the file, direct and mutual recursion
\* included, a build comes to its end with finitely many blocks and
\* connections: the expansions nested in one another never outnumber the
\* procedures of the file, and no run takes steps for ever.
C3_BuildTerminates ==
    /\ [](CallDepth(stack) <= Cardinality(FuncNames))
    /\ <>[][FALSE]_vars

\* a finished build of a procedure that calls itself
C3_Witness ==
    /\ Done
    /\ \E i \in 1..Len(blocks) :
          IF builder = "TextCFG"
          THEN IsIn(blocks[i].function, blocks[i].function_calls)
          ELSE IsIn(blocks[i].method, blocks[i].method_calls)

\* the procedure a block belongs to and the procedures its statement calls
Owner(b) == IF builder = "TextCFG" THEN b.function ELSE b.method
CallsOf(b) == IF builder = "TextCFG" THEN b.function_calls ELSE b.method_calls
CallType == IF builder = "TextCFG" THEN "function_call" ELSE "method_call"

\* the procedures reached from those of S by at most k calls stored in blocks
RECURSIVE CalledFrom(_, _)
CalledFrom(S, k) ==
    IF k = 0 THEN S
    ELSE CalledFrom(S \cup {f \in FuncNames :
                               \E i \in 1..Len(blocks) :
                                   Owner(blocks[i]) \in S /\ IsIn(f, CallsOf(blocks[i]))},
                    k - 1)

\* block b calls procedure f from inside an expansion of f
RecursiveCall(b, f) ==
    /\ f \in FuncNames
    /\ IsIn(f, CallsOf(b))
    /\ Owner(b) \in CalledFrom({f}, Cardinality(FuncNames))

\* the frames of procedures whose body has been entered and not yet left
Expanding == {i \in 1..Len(stack) :
                /\ stack[i].op \in {"build_function_cfg", "build_method_cfg"}
                /\ stack[i].pc # "enter"}

\* the first block stored for procedure f
FirstBlockOf(f) ==
    IF builder = "TextCFG" THEN find_function_first_block(blocks, f)
    ELSE find_method_first_block(blocks, f)

\* C4: a procedure that is being expanded on the current expansion path is
\* not expanded again while it is on that path, and in the finished graph the
\* block that makes the recursive call has exactly one call edge to the first
\* block of that procedure.
C4_RecursionGuard ==
    /\ \A i, j \in Expanding : stack[i].func = stack[j].func => i = j
    /\ Done => \A i \in 1..Len(blocks) : \A f \in FuncNames :
                  RecursiveCall(blocks[i], f)
                  => Cardinality({k \in EdgesFrom(blocks[i].id, CallType) :
                                     connections[k].to = FirstBlockOf(f)}) = 1

\* a finished graph of two procedures that call each other: the call back
\* into the root goes to block 0
C4_Witness ==
    /\ Done
    /\ \E i \in 1..Len(blocks) :
          /\ Owner(blocks[i]) # main_function
          /\ RecursiveCall(blocks[i], main_function)
          /\ \E k \in EdgesFrom(blocks[i].id, CallType) : connections[k].to = 0

\* C5: in every finished TextCFG graph no statement of the root procedure
\* or of a procedure reached from it through calls is represented by two
\* blocks, also when a callee is reached along more than one call path.
C5_OneBlockPerStatement ==
    (builder = "TextCFG" /\ Done)
    => \A i, j \in 1..Len(blocks) : blocks[i].ast_node = blocks[j].ast_node => i = j

\* the target that was asked for does not exist
NoSuchTarget ==
    \/ requested # NoName /\ requested \notin FuncNames
    \/ FuncNames = {}
    \/ builder = "JavaCFG" /\ requested_class # NoName /\ requested_class \notin ClassNames

\* C6: when the procedure asked for is not among those found in the file,
\* or the file has no procedure at all, or (JavaCFG) the class asked for is
\* not in the file, construction ends with the error before a block or a
\* connection exists, and no procedure is taken as the root instead.
C6_NotFoundFailsEarly ==
    NoSuchTarget => /\ status \in {"new", "error"}
                    /\ main_function = NoName
                    /\ blocks = <<>>
                    /\ connections = <<>>
                    /\ stack = <<>>
                    /\ cfg_edges = <<>>

\* JavaCFG was asked for a class that the file does not have and a method
\* that it has, and has raised
C6_Witness ==
    /\ builder = "JavaCFG"
    /\ status = "error"
    /\ requested_class # NoName /\ requested_class \notin ClassNames
    /\ requested \in FuncNames

\* what the claim compares of a list of blocks: id, kind, text and owner
BlockContents(bs) ==
    {<<bs[i].id, bs[i].type, bs[i].code, Owner(bs[i])>> : i \in 1..Len(bs)}

EdgeContents(cs) == {cs[i] : i \in 1..Len(cs)}

\* C7: the second TextCFG build of the same procedure from the same file yields the
\* blocks (id, kind, text, owner) and the edges of the first build, in
\* whatever order the sets of called names are iterated in either build.
C7_SameGraphTwice ==
    (builder = "TextCFG" /\ Done /\ builds = 2)
    => /\ BlockContents(blocks) = BlockContents(firstGraph.blocks)
       /\ EdgeContents(connections) = EdgeContents(firstGraph.connections)

\* the body of the root procedure is one if/else with a single return in
\* each arm
IfElseReturns ==
    /\ builder = "TextCFG"
    /\ main_function \in FuncNames
    /\ Len(FuncBody(main_function)) = 1
    /\ LET n == FuncBody(main_function)[1]
       IN /\ Kind(n) = "If"
          /\ Len(Body(n)) = 1 /\ Kind(Body(n)[1]) = "Return"
          /\ Len(Orelse(n)) = 1 /\ Kind(Orelse(n)[1]) = "Return"

\* none of the three statements calls a procedure of the file
IfElseReturnsNoCalls ==
    LET n == FuncBody(main_function)[1]
    IN (Calls(n) \cup Calls(Body(n)[1]) \cup Calls(Orelse(n)[1])) \cap FuncNames = {}

\* 3 blocks (if, then-return, else-return); condition_true if -> then,
\* condition_false if -> else, each return -> END, and no other edge
IfElseReturnsGraph ==
    LET n == FuncBody(main_function)[1]
        END == 3
    IN /\ Len(blocks) = 3
       /\ blocks[1].id = 0 /\ blocks[1].type = "if_statement" /\ blocks[1].ast_node = n
       /\ blocks[2].id = 1 /\ blocks[2].type = "return" /\ blocks[2].ast_node = Body(n)[1]
       /\ blocks[3].id = 2 /\ blocks[3].type = "return" /\ blocks[3].ast_node = Orelse(n)[1]
       /\ EdgeContents(connections) = {Conn(0, 1, "condition_true", blocks[1].condition),
                                       Conn(0, 2, "condition_false", blocks[1].condition)}
       /\ Len(cfg_edges) = 4
       /\ EdgeContents(cfg_edges) = {Edge(0, "match case", blocks[1].condition, 1),
                                     Edge(0, "not match case", blocks[1].condition, 2),
                                     Edge(1, "unconditional", 0, END),
                                     Edge(2, "unconditional", 0, END)}

Nodes == 1..Len(prog.st)

\* the suites of the source: the bodies of the functions and the suites of
\* the statements
AllSuites ==
    {prog.funcs[i].body : i \in 1..Len(prog.funcs)}
    \cup {Body(n) : n \in Nodes} \cup {Orelse(n) : n \in Nodes}
    \cup {Finalbody(n) : n \in Nodes}

\* statement m stands right after statement n in the same suite
Follows(m, n) ==
    \E suite \in AllSuites : \E i \in 1..(Len(suite) - 1) : suite[i] = n /\ suite[i + 1] = m

\* the ids of the blocks created for statement n
BlocksOf(n) == {blocks[i].id : i \in {k \in 1..Len(blocks) : blocks[k].ast_node = n}}

\* a loop without else whose body is an else-less if that ends in a break,
\* followed by the sibling statement S; statement N follows the loop
BreakLoop(L, I, B, S, N) ==
    /\ Kind(L) \in Loops /\ Orelse(L) = <<>>
    /\ Body(L) = <<I, S>>
    /\ Kind(I) = "If" /\ Orelse(I) = <<>>
    /\ B = Last(Body(I)) /\ Kind(B) = "Break"
    /\ Follows(N, L)

\* S is a plain statement: control goes on after it
PlainKinds == {"Assign", "AugAssign", "Expr", "Pass"}

\* the edges the claim names: the only condition_false edge of the if block
\* goes to S, S loops back to the header, the break leaves to N
BreakLoopGraph(L, I, B, S, N) ==
    \A bI \in BlocksOf(I), bB \in BlocksOf(B), bS \in BlocksOf(S) :
        /\ \A k \in EdgesFrom(bI, "condition_false") : connections[k].to = bS
        /\ Cardinality(EdgesFrom(bI, "condition_false")) = 1
        /\ \E k \in EdgesFrom(bS, "loop_back") : connections[k].to \in BlocksOf(L)
        /\ \E k \in EdgesFrom(bB, "break_exit") : connections[k].to \in BlocksOf(N)

\* C9: for a loop without else whose body is an else-less if ending in a
\* break followed by a plain sibling statement S, the finished graph has the
\* if block's only condition_false edge pointing to S, a loop_back edge from
\* S to the loop header, and a break_exit edge from the break block to the
\* first block of the statement that follows the loop.
C9_BreakLoop ==
    (builder = "TextCFG" /\ Done)
    => \A L, I, B, S, N \in Nodes :
          (BreakLoop(L, I, B, S, N) /\ Kind(S) \in PlainKinds)
          => BreakLoopGraph(L, I, B, S, N)

\* the ids of the blocks created for the statements of a suite, nested
\* blocks included
SuiteBlocks(suite) ==
    {blocks[i].id : i \in {k \in 1..Len(blocks) :
                              \E j \in 1..Len(suite) :
                                  is_part_of_statement(blocks[k].ast_node, suite[j])}}

\* the first block created for a suite
FirstOfSuite(suite) == CHOOSE b \in SuiteBlocks(suite) : \A c \in SuiteBlocks(suite) : b <= c

\* every block of the try body has exactly one exception edge to the first
\* block of each handler
ExceptionEdges(T) ==
    \A b \in SuiteBlocks(Body(T)) : \A h \in 1..Len(Handlers(T)) :
        \A hb \in BlocksOf(Handlers(T)[h]) :
            Cardinality({k \in EdgesFrom(b, "exception") : connections[k].to = hb}) = 1

\* a suite that ends in a plain statement hands control from the block of
\* that statement to the finally body
FinallyEdgeFrom(suite, T) ==
    (suite # <<>> /\ Kind(Last(suite)) \in PlainKinds)
    => \A b \in BlocksOf(Last(suite)) :
          \E k \in EdgesFrom(b, "finally") : connections[k].to = FirstOfSuite(Finalbody(T))

FinallyEdges(T) ==
    Finalbody(T) # <<>>
    => /\ FinallyEdgeFrom(Body(T), T)
       /\ \A h \in 1..Len(Handlers(T)) : FinallyEdgeFrom(Body(Handlers(T)[h]), T)
       /\ FinallyEdgeFrom(Orelse(T), T)

\* C10: for every try statement of a finished TextCFG graph, every block of
\* the try body (nested blocks included) has one exception edge to the first
\* block of each handler, and when there is a finally body the last executed
\* block of the try body, of each handler body and of the else body has a
\* finally edge to the first block of the finally body.
C10_TryEdges ==
    (builder = "TextCFG" /\ Done)
    => \A T \in Nodes : Kind(T) = "Try" => ExceptionEdges(T) /\ FinallyEdges(T)

(***************************************************************************)
(* Returns that hold a comprehension                                       *)
(***************************************************************************)
\* the stored connections between two blocks of the set B, as triples
EdgesAmong(B) ==
    {<<connections[i].from, connections[i].to, connections[i].type>> :
        i \in {k \in 1..Len(connections) :
                  connections[k].from \in B /\ connections[k].to \in B}}

\* the returns of the source that hold a list comprehension with a guard and
\* have been built
GuardedListReturns ==
    {n \in Nodes : /\ Kind(n) = "Return" /\ Comp(n).kind = "list" /\ Comp(n).guard
                   /\ BlocksOf(n) # {}}

\* C11: a return whose expression is a list comprehension with one guard is
\* desugared into 5 synthetic blocks, and the edges among them are exactly
\* header to filter (match), filter to collect (true branch), filter to
\* header (false branch), collect to header (loop_back) and header to the
\* synthetic return (exhausted branch).
C11_ListCompReturn ==
    (builder = "TextCFG" /\ Done) =>
        \A n \in GuardedListReturns :
            /\ Cardinality(BlocksOf(n)) = 5
            /\ \E header, filter, collect, return \in BlocksOf(n) :
                  EdgesAmong(BlocksOf(n)) =
                      {<<header, filter, "for_match">>, <<filter, collect, "condition_true">>,
                       <<filter, header, "condition_false">>, <<collect, header, "loop_back">>,
                       <<header, return, "for_not_match">>}
(***************************************************************************)
(* The lines to END                                                        *)
(***************************************************************************)
\* the lines of the serialized graph that read
\* "Block id unconditional points to Block end"
EndLines(id, end) ==
    {i \in 1..Len(cfg_edges) : /\ cfg_edges[i].from = id
                               /\ cfg_edges[i].phrase = "unconditional"
                               /\ cfg_edges[i].to = end}

RootReturn(b) == b.type = "return" /\ Owner(b) = main_function
OtherReturn(b) == b.type = "return" /\ Owner(b) # main_function

\* C12: in the serialized graph every return block of the root procedure has
\* exactly one "unconditional points to" line to the END block, no return
\* block of another procedure has one, and the id of the END block is the id
\* of no real block.
C12_EndLines ==
    Done => LET end_block_id == Len(blocks) IN
            \A i \in 1..Len(blocks) :
                /\ RootReturn(blocks[i]) => Cardinality(EndLines(blocks[i].id, end_block_id)) = 1
                /\ OtherReturn(blocks[i]) => EndLines(blocks[i].id, end_block_id) = {}
                /\ blocks[i].id # end_block_id

\* a serialized graph with a return of the root and a return of a callee
C12_Witness ==
    /\ Done
    /\ \E i, j \in 1..Len(blocks) : RootReturn(blocks[i]) /\ OtherReturn(blocks[j])
(***************************************************************************)
(* The root procedure                                                      *)
(***************************************************************************)
\* C13: when no target name is given, the root procedure TextCFG chooses is
\* the procedure declared first in the source text, also when that one is a
\* method of a class or a nested procedure and a top-level procedure is
\* declared after it.
C13_FirstDeclaredIsRoot ==
    (builder = "TextCFG" /\ requested = NoName /\ status \in {"building", "done", "crashed"})
        => main_function = prog.funcs[1].name
(***************************************************************************)
(* Statements of a kind the builder has no case for                        *)
(***************************************************************************)
\* the statements the build has reached that are of a kind
\* _process_single_statement does not know
UnknownStatements == {n \in Nodes : Kind(n) = "ClassDef" /\ BlocksOf(n) # {}}

\* the statement that follows n in its suite has a block made after n's
ContinuesAfter(n) ==
    \A m \in Nodes : Follows(m, n) => \E b \in BlocksOf(m) : \A a \in BlocksOf(n) : a < b

\* C14: a statement of a kind the builder does not recognise never aborts
\* the build: it yields exactly one block, of kind unknown, and construction
\* goes on with the statements after it to a finished graph.
C14_UnknownNeverAborts ==
    (builder = "TextCFG" /\ UnknownStatements # {})
    => /\ status # "crashed"
       /\ \A n \in UnknownStatements :
             /\ Cardinality(BlocksOf(n)) = 1
             /\ \A i \in 1..Len(blocks) : blocks[i].ast_node = n => blocks[i].type = "unknown"
             /\ Done => ContinuesAfter(n)
(***************************************************************************)
(* The exits of if statements and loops                                    *)
(***************************************************************************)
\* the first block of statement n: a block of n or of a statement nested in n
\* that does not continue a run of such blocks (a try has no block of its own,
\* a callee expanded twice has two runs)
FirstBlocks(n) == {b \in SuiteBlocks(<<n>>) : (b - 1) \notin SuiteBlocks(<<n>>)}

\* an if statement without else that has been built and has a following
\* sibling S in its suite
ImplicitElse(I, S) ==
    /\ Kind(I) = "If" /\ Orelse(I) = <<>>
    /\ Follows(S, I)
    /\ BlocksOf(I) # {}

\* C15: in a finished TextCFG graph every if statement without an else
\* branch that has a following sibling statement in its own statement
\* sequence has exactly one condition_false edge, and that edge targets the
\* first block of that sibling, at any nesting depth.
C15_ImplicitElseTarget ==
    (builder = "TextCFG" /\ Done)
    => \A I, S \in Nodes :
          ImplicitElse(I, S)
          => \A b \in BlocksOf(I) :
                /\ Cardinality(EdgesFrom(b, "condition_false")) = 1
                /\ \A k \in EdgesFrom(b, "condition_false") : connections[k].to \in FirstBlocks(S)

\* the label of the edge a loop header takes when the iteration is exhausted
ExhaustedType(L) == IF Kind(L) = "For" THEN "for_not_match" ELSE "condition_false"

\* the blocks the exhausted-iteration edge of loop L is to reach: the first
\* block of the else body, or else of the statement S that follows the loop
ExhaustedTargets(L, S) ==
    IF Orelse(L) # <<>> THEN {b \in SuiteBlocks(Orelse(L)) : (b - 1) \notin SuiteBlocks(Orelse(L))}
    ELSE FirstBlocks(S)

\* C16: in a finished TextCFG graph the exhausted-iteration edge of every
\* for or while loop (for_not_match / condition_false from the header)
\* targets the first block of the loop's else body when an else exists, and
\* otherwise the first block of the statement that follows the loop in its
\* own statement sequence, also when the loop is nested in another loop.
C16_LoopExitTarget ==
    (builder = "TextCFG" /\ Done)
    => \A L, S \in Nodes :
          (Kind(L) \in Loops /\ (Orelse(L) # <<>> \/ Follows(S, L)))
          => \A b \in BlocksOf(L) :
                /\ EdgesFrom(b, ExhaustedType(L)) # {}
                /\ \A k \in EdgesFrom(b, ExhaustedType(L)) :
                      connections[k].to \in ExhaustedTargets(L, S)
(***************************************************************************)
(* The loop_back edges                                                     *)
(***************************************************************************)
\* the statements control can execute last on some path through a suite:
\* the last statement when it is plain, the ends of both arms of a last if
\* (the if itself when it has no else), the header of a last loop (left when
\* the iteration is exhausted) and the end of its else body, the end of the
\* body of a last with, the end of the finally body of a last try or else
\* the ends of its body, handlers and else body
RECURSIVE LastExecuted(_)
LastExecuted(suite) ==
    IF suite = <<>> THEN {}
    ELSE LET n == Last(suite) IN
         CASE Kind(n) = "If" ->
                LastExecuted(Body(n)) \cup (IF Orelse(n) = <<>> THEN {n} ELSE LastExecuted(Orelse(n)))
           [] Kind(n) \in Loops -> {n} \cup LastExecuted(Orelse(n))
           [] Kind(n) = "With" -> LastExecuted(Body(n))
           [] Kind(n) = "Try" ->
                IF Finalbody(n) # <<>> THEN LastExecuted(Finalbody(n))
                ELSE LastExecuted(Body(n)) \cup LastExecuted(Orelse(n))
                     \cup UNION {LastExecuted(Body(Handlers(n)[h])) : h \in 1..Len(Handlers(n))}
           [] Kind(n) \in {"Return", "Break", "Continue", "Raise"} -> {}
           [] OTHER -> {n}

\* the stored loop_back connections
LoopBacks == {k \in 1..Len(connections) : connections[k].type = "loop_back"}

\* block src ends a path through the body of the loop of block header: the
\* loop of the source, or the loop the expansion of a comprehension wrote
EndsBodyOf(src, header) ==
    IF Comp(header.ast_node).kind # "none"
    THEN src.ast_node = header.ast_node /\ src.type = "expression"
    ELSE /\ Kind(header.ast_node) \in Loops
         /\ src.ast_node \in LastExecuted(Body(header.ast_node))

\* C17: in a finished TextCFG graph every loop_back edge goes from a block
\* that is a last-executed block on some path through the body of the loop
\* whose header it targets, and never from a block of kind return, break,
\* continue or raise.
C17_LoopBackSources ==
    (builder = "TextCFG" /\ Done)
    => \A k \in LoopBacks :
          LET src == blocks[connections[k].from + 1]
              header == blocks[connections[k].to + 1]
          IN /\ src.type \notin {"return", "break", "continue", "raise"}
             /\ EndsBodyOf(src, header)

BranchExitTypes == {"condition_true", "condition_false", "for_not_match"}

\* the stored branch-exit connections that leave block id
BranchExits(id) ==
    {k \in 1..Len(connections) :
        connections[k].from = id /\ connections[k].type \in BranchExitTypes}

\* C18: in a finished TextCFG graph no block has both an outgoing loop_back
\* edge and an outgoing branch-exit edge (condition_true, condition_false or
\* for_not_match), in whatever order the two kinds of edge were added.
C18_LoopBackExcludesBranchExit ==
    (builder = "TextCFG" /\ Done)
    => \A i \in 1..Len(blocks) :
          EdgesFrom(blocks[i].id, "loop_back") = {} \/ BranchExits(blocks[i].id) = {}
(***************************************************************************)
(* The exits of break statements                                           *)
(***************************************************************************)
\* statement n stands in the suite, at any depth
Within(n, suite) == \E j \in 1..Len(suite) : is_part_of_statement(n, suite[j])

\* L is the nearest loop around statement B: B stands in the body of L and
\* in the body of no loop nested in the body of L
NearestLoop(L, B) ==
    /\ Kind(L) \in Loops
    /\ Within(B, Body(L))
    /\ \A M \in Nodes : (Kind(M) \in Loops /\ M # L /\ Within(M, Body(L))) => ~Within(B, Body(M))

\* C19: in a finished TextCFG graph every break block inside a loop, when a
\* statement follows its nearest enclosing loop in that loop's own statement
\* sequence, has exactly one break_exit edge and it targets the first block
\* of that statement, whatever compound statements enclose the loop.
C19_BreakExitTarget ==
    (builder = "TextCFG" /\ Done)
    => \A B, L, N \in Nodes :
          (Kind(B) = "Break" /\ NearestLoop(L, B) /\ Follows(N, L))
          => \A b \in BlocksOf(B) :
                /\ Cardinality(EdgesFrom(b, "break_exit")) = 1
                /\ \A k \in EdgesFrom(b, "break_exit") : connections[k].to \in FirstBlocks(N)

\* JavaCFG: the blocks of the method of loop header h that come after the
\* loop, i.e. after the header and outside its body
JavaAfterLoop(h) ==
    {blocks[j].id : j \in {k \in 1..Len(blocks) :
                              /\ blocks[k].method = blocks[h + 1].method
                              /\ blocks[k].id > h
                              /\ ~IsIn(blocks[k].id, blocks[h + 1].body_blocks)}}

\* the break blocks of a loop that is followed by a statement of its method
JavaBreaksWithExit ==
    {i \in 1..Len(blocks) : /\ blocks[i].type = "break"
                            /\ blocks[i].break_target # NoBlock
                            /\ JavaAfterLoop(blocks[i].break_target) # {}}

\* C20: in a finished JavaCFG graph every break block inside a loop that is
\* followed by a statement in the same method has a break_exit edge to the
\* first block after that loop, however many blocks the method has.
C20_JavaBreakExit ==
    (builder = "JavaCFG" /\ Done)
    => \A i \in JavaBreaksWithExit :
          \E k \in EdgesFrom(blocks[i].id, "break_exit") :
              \A a \in JavaAfterLoop(blocks[i].break_target) : connections[k].to <= a
(***************************************************************************)
(* The continue edges                                                      *)
(***************************************************************************)
\* JavaCFG: the header of the innermost loop whose body holds block id
JavaLoopsAround(id) ==
    {h \in 0..(Len(blocks) - 1) : /\ blocks[h + 1].type \in JavaLoopTypes
                                  /\ IsIn(id, blocks[h + 1].body_blocks)}

\* the blocks a continue edge of block b may target: the header of the
\* nearest loop that encloses the continue statement
ContinueTargets(b) ==
    IF builder = "TextCFG"
    THEN UNION {BlocksOf(L) : L \in {M \in Nodes : NearestLoop(M, b.ast_node)}}
    ELSE {h \in JavaLoopsAround(b.id) : \A g \in JavaLoopsAround(b.id) : g <= h}

\* C21: every continue block inside a loop has exactly one continue edge and
\* it targets the header block of the nearest loop that encloses the continue
\* statement, also when the continue stands in the else clause of an inner
\* loop, where the nearest enclosing loop is the outer one.
C21_ContinueTarget ==
    Done => \A i \in 1..Len(blocks) :
               (blocks[i].type = "continue" /\ ContinueTargets(blocks[i]) # {})
               => /\ Cardinality(EdgesFrom(blocks[i].id, "continue")) = 1
                  /\ \A k \in EdgesFrom(blocks[i].id, "continue") :
                        connections[k].to \in ContinueTargets(blocks[i])
(***************************************************************************)
(* Call and return edges                                                   *)
(***************************************************************************)
ReturnType == IF builder = "TextCFG" THEN "function_return" ELSE "method_return"

\* the return blocks of procedure P
ReturnBlocksOf(P) ==
    {blocks[j].id : j \in {k \in 1..Len(blocks) :
                              Owner(blocks[k]) = P /\ blocks[k].type = "return"}}

\* the blocks whose statement calls procedure P
CallersOf(P) ==
    {blocks[j].id : j \in {k \in 1..Len(blocks) : IsIn(P, CallsOf(blocks[k]))}}

\* C22: in a finished graph, for every block whose call set names a known
\* procedure P there is a call edge from that block to the first block of P,
\* and from every return block of P there is a return edge to that calling
\* block itself; no return edge of P goes to a block that does not call P,
\* such as the successor of the calling block.
C22_CallAndReturnEdges ==
    Done => \A P \in FuncNames :
               FirstBlockOf(P) # NoBlock
               => /\ \A c \in CallersOf(P) :
                        /\ \E k \in EdgesFrom(c, CallType) : connections[k].to = FirstBlockOf(P)
                        /\ \A r \in ReturnBlocksOf(P) :
                              \E k \in EdgesFrom(r, ReturnType) : connections[k].to = c
                  /\ \A r \in ReturnBlocksOf(P) :
                        \A k \in EdgesFrom(r, ReturnType) : connections[k].to \in CallersOf(P)

\* a finished graph in which a procedure with a return block is called from
\* a block that is followed by another block of the caller
C22_Witness ==
    /\ Done
    /\ \E P \in FuncNames : \E c \in CallersOf(P) :
          /\ ReturnBlocksOf(P) # {}
          /\ Owner(blocks[c + 1]) # P
          /\ c + 2 <= Len(blocks) /\ Owner(blocks[c + 2]) = Owner(blocks[c + 1])
          /\ (c + 1) \notin CallersOf(P)
(***************************************************************************)
(* The call set of a compound statement's block                            *)
(***************************************************************************)
HeaderKinds == {"If", "While", "For", "With"}

\* the blocks made from an if, while, for or with statement
HeaderBlocks ==
    {i \in 1..Len(blocks) : /\ blocks[i].ast_node # NoNode
                             /\ Kind(blocks[i].ast_node) \in HeaderKinds
                             /\ blocks[i].type \in {"if_statement", "while_loop", "for_loop",
                                                    "with_statement"}}

\* C23: the call set of a block made from an if, while, for or with statement
\* holds only procedures called in the header expression of the statement,
\* never one called only in its nested body.
C23_HeaderCallsOnly ==
    builder = "TextCFG"
    => \A i \in HeaderBlocks :
          \A k \in 1..Len(blocks[i].function_calls) :
             blocks[i].function_calls[k] \in Calls(blocks[i].ast_node)

\* the same for the blocks of if, while and for statements alone
C23_TestCallsOnly ==
    builder = "TextCFG"
    => \A i \in HeaderBlocks :
          Kind(blocks[i].ast_node) # "With"
          => \A k \in 1..Len(blocks[i].function_calls) :
                blocks[i].function_calls[k] \in Calls(blocks[i].ast_node)
(***************************************************************************)
(* Edge resolution and block creation                                      *)
(***************************************************************************)
\* the edge types that only the resolution pass adds
StitchTypes == {"break_exit", "function_call", "function_return", "method_call", "method_return"}

ResolutionEdges(cs) == {k \in 1..Len(cs) : cs[k].type \in StitchTypes}

CreatesBlock == Len(blocks') > Len(blocks)

\* C24: edge resolution runs once per build, after the last block of the root
\* procedure and of every expanded callee was created: no step creates a
\* block when the edge list already holds an edge made by the resolution.
C24_ResolutionAfterLastBlock ==
    [][CreatesBlock => ResolutionEdges(connections) = {}]_vars

\* the same for the builds of JavaCFG alone
C24_JavaResolutionAfterLastBlock ==
    [][(builder = "JavaCFG" /\ CreatesBlock) => ResolutionEdges(connections) = {}]_vars
(***************************************************************************)
(* The block list                                                          *)
(***************************************************************************)
\* the kind, text and owning procedure of a block
Identity(b) == <<b.id, b.type, b.code, Owner(b)>>

\* a step of a build keeps every block there is
KeepsBlocks ==
    /\ Len(blocks') >= Len(blocks)
    /\ \A i \in 1..Len(blocks) : Identity(blocks'[i]) = Identity(blocks[i])

\* C25: throughout a build the block list is append-only: the block at
\* position i (counted from 0) has id i, so ids are handed out in creation
\* order, and no step of the build removes a block or changes the kind, text
\* or owning procedure of a block; only the start of another build empties
\* the list.
C25_BlocksAppendOnly ==
    /\ [](\A i \in 1..Len(blocks) : blocks[i].id = i - 1)
    /\ [][builds' = builds => KeepsBlocks]_vars

\* a finished graph with the handler block that _process_try_statement
\* appends by hand, or with a block whose list of body blocks was filled in
\* after its creation
C25_Witness ==
    /\ Done
    /\ Len(blocks) >= 3
    /\ \/ \E i \in 1..Len(blocks) : blocks[i].type = "except_handler"
       \/ /\ builder = "JavaCFG"
          /\ \E i \in 1..Len(blocks) : blocks[i].body_blocks # <<>>
(***************************************************************************)
(* JavaCFG: the else-less if at the end of a loop body                     *)
(***************************************************************************)
\* the statements of the method that owns block b
JavaBodyOf(b) ==
    LET f == CHOOSE i \in 1..Len(prog.funcs) : prog.funcs[i].name = b.method
    IN prog.funcs[f].body

\* the statement block b was made from
JavaLineOf(b) ==
    CHOOSE i \in 1..Len(JavaBodyOf(b)) :
        JavaBodyOf(b)[i].text = b.code

\* the number of braces open after statement k of body
BraceDepth(body, k) ==
    Cardinality({j \in 1..k : body[j].open = 1}) - Cardinality({j \in 1..k : body[j].close = 1})

\* the statements that close the brace opened by statement i
ClosersOf(body, i) ==
    {j \in (i + 1)..Len(body) : /\ body[j].close = 1
                                /\ BraceDepth(body, j - 1) = BraceDepth(body, i)}

ClosedAt(body, i) == CHOOSE j \in ClosersOf(body, i) : \A k \in ClosersOf(body, i) : j <= k

\* in body, statement i is an else-less if and the last statement of the body
\* of the loop at statement h
LastIfOfLoop(body, i, h) ==
    /\ body[i].kind = "if" /\ body[h].kind \in {"while", "for"}
    /\ h < i
    /\ ClosersOf(body, i) # {} /\ ClosersOf(body, h) # {}
    /\ body[ClosedAt(body, i)].kind = "}"
    /\ ClosedAt(body, h) = ClosedAt(body, i) + 1

\* C26: in a finished JavaCFG graph an else-less if that is the last
\* statement of a loop body has its condition_false edge pointing to the
\* header of that loop, the innermost loop that encloses it, also when the
\* loop is nested inside another loop.
C26_JavaLastIfFalseTarget ==
    (builder = "JavaCFG" /\ Done)
    => \A i, h \in 1..Len(blocks) :
          (/\ blocks[i].type = "if_statement"
           /\ blocks[h].type \in JavaLoopTypes
           /\ blocks[h].method = blocks[i].method
           /\ LastIfOfLoop(JavaBodyOf(blocks[i]), JavaLineOf(blocks[i]), JavaLineOf(blocks[h])))
          => /\ EdgesFrom(blocks[i].id, "condition_false") # {}
             /\ \A k \in EdgesFrom(blocks[i].id, "condition_false") :
                   connections[k].to = blocks[h].id
(***************************************************************************)
(* JavaCFG: loop_back and sequential edges                                 *)
(***************************************************************************)
\* C27: in a finished JavaCFG graph no block has both an outgoing loop_back
\* edge and an outgoing sequential edge.
C27_JavaNoSequentialBesideLoopBack ==
    (builder = "JavaCFG" /\ Done)
    => \A i \in 1..Len(blocks) :
          EdgesFrom(blocks[i].id, "loop_back") = {} \/ EdgesFrom(blocks[i].id, "sequential") = {}

\* a finished graph with a plain statement that loops back and is followed,
\* in its method, by a block that is not a jump target of its own
C27_Witness ==
    /\ builder = "JavaCFG" /\ Done
    /\ \E i \in 1..(Len(blocks) - 1) :
          /\ blocks[i].type = "expression"
          /\ EdgesFrom(blocks[i].id, "loop_back") # {}
          /\ blocks[i + 1].method = blocks[i].method
          /\ EdgesFrom(blocks[i].id, "sequential") = {}
(***************************************************************************)
(* self_debug_serial.py: the counters of DebugResults                      *)
(***************************************************************************)
\* C28: after any sequence of add_result calls total_processed is the number
\* of entries of results_details, test_passed + test_failed is at most
\* total_processed, and debug_errors + cfg_errors + timeout_errors is at most
\* total_processed.
C28_DebugResultsCounters ==
    /\ debug_results.total_processed = Len(debug_results.results_details)
    /\ debug_results.test_passed + debug_results.test_failed <= debug_results.total_processed
    /\ debug_results.debug_errors + debug_results.cfg_errors + debug_results.timeout_errors
          <= debug_results.total_processed

\* two calls were made: one with a failed test and a timeout, one with
\* neither a test result nor one of the three counted errors
C28_Witness ==
    /\ debug_results.total_processed = 2
    /\ debug_results.test_failed = 1 /\ debug_results.test_passed = 0
    /\ debug_results.timeout_errors = 1
    /\ \E k \in 1..2 : /\ debug_results.results_details[k].test_passed = None
                       /\ debug_results.results_details[k].error_type = "shutdown"
(***************************************************************************)
(* self_debug_serial.py: the shutdown flag                                 *)
(***************************************************************************)
\* main calls process_single_task
StartsTask == serial.pc # "process_single_task" /\ serial'.pc = "process_single_task"

\* the task in progress calls chat_selfdebug
StartsAttempt == serial.pc # "chat_selfdebug" /\ serial'.pc = "chat_selfdebug"

\* the task in progress calls run_check_function
StartsTest == serial.pc # "run_check_function" /\ serial'.pc = "run_check_function"

\* C29: once the signal handler has set shutdown_event it is never cleared,
\* main starts no further task, and the task in progress starts no new
\* chat_selfdebug attempt and no test run.
C29_NothingStartsAfterShutdown ==
    [][shutdown_event => /\ shutdown_event'
                         /\ ~StartsTask
                         /\ ~StartsAttempt
                         /\ ~StartsTest]_vars

\* the same without the attempts of chat_selfdebug
C29_NoTaskNoTestAfterShutdown ==
    [][shutdown_event => (shutdown_event' /\ ~StartsTask /\ ~StartsTest)]_vars
(***************************************************************************)
(* self_debug_multi_defects4j.py: the recorded patches                     *)
(***************************************************************************)
\* the patch to record for a bug, given what selfdebug_java_single returned
ExpectedPatch(bug_data, corrected_code) ==
    IF corrected_code.kind = "code" /\ corrected_code.code # bug_data.buggy
    THEN corrected_code.code
    ELSE bug_data.buggy

====
